---- MODULE Spec2Model ----
(***************************************************************************)
(* A model of the linear-programming engine: the rational scalar, the      *)
(* Problem / StandardForm lowering, the Tableau with its pivot engine, and *)
(* the three stepwise solvers (primal Dantzig simplex, two-phase d-then-c  *)
(* simplex with Bland's rule, shadow-vertex simplex) behind the common     *)
(* Solver driver (init, find_initial_bfs, step, is_done, last_step, solve).*)
(*                                                                         *)
(* Row and column indices are 0-based as in the source; the sequences that *)
(* hold rows and vectors are 1-based, so entry i of a Vec is seq[i + 1].   *)
(***************************************************************************)
EXTENDS Integers, Sequences, FiniteSets, TLC

(***************************************************************************)
(* Bounds of the model.                                                    *)
(***************************************************************************)
\* coefficients of objectives and constraints range over -1..MaxCoef
MaxCoef == 1
\* right-hand sides range over -1..MaxRhs
MaxRhs == 1
\* number of direct pivot calls on a host-owned tableau (SpecTableau)
MaxPivots == 2
\* cap on the solver's iteration counter (pivots performed since init)
MaxIter == 6
\* the z-row and r_c entries given to the column rules are drawn from -MaxCost..1
MaxCost == 2
\* the column entries, right-hand sides and r_d entries given to the rules are drawn
\* from -1..MaxEntry
MaxEntry == 2

(***************************************************************************)
(* The scalar: Rational64, a numerator/denominator pair kept reduced with  *)
(* a positive denominator.                                                 *)
(***************************************************************************)
Abs(x) == IF x < 0 THEN -x ELSE x

RECURSIVE Gcd(_, _)
Gcd(a, b) == IF b = 0 THEN a ELSE Gcd(b, a % b)

\* Rational64::new(n, d), d # 0
Ratio(n, d) ==
    LET g == Gcd(Abs(n), Abs(d))
        s == IF d < 0 THEN -1 ELSE 1
    IN  <<(s * n) \div g, (s * d) \div g>>

FromInteger(i) == <<i, 1>>
Zero == <<0, 1>>
One == <<1, 1>>

RNeg(a) == <<-a[1], a[2]>>
RAdd(a, b) == Ratio(a[1] * b[2] + b[1] * a[2], a[2] * b[2])
RSub(a, b) == Ratio(a[1] * b[2] - b[1] * a[2], a[2] * b[2])
RMul(a, b) == Ratio(a[1] * b[1], a[2] * b[2])
\* division; the divisor is non-zero wherever the model uses it
RDiv(a, b) == Ratio(a[1] * b[2], a[2] * b[1])
RLt(a, b) == a[1] * b[2] < b[1] * a[2]
RLe(a, b) == a[1] * b[2] <= b[1] * a[2]

IsRatio(a) == a[2] > 0 /\ Gcd(Abs(a[1]), a[2]) = 1

(***************************************************************************)
(* Sequence helpers.                                                       *)
(***************************************************************************)
Range(s) == {s[i] : i \in DOMAIN s}

\* all sequences of length n over S
SeqsOfLen(S, n) == [1..n -> S]

RECURSIVE SumTo(_, _)
\* sum of the rationals f[1] .. f[k]
SumTo(f, k) == IF k = 0 THEN Zero ELSE RAdd(SumTo(f, k - 1), f[k])

(***************************************************************************)
(* Problem, Constraint and their lowering into a Tableau.                  *)
(***************************************************************************)
Relations == {"LessEqual", "GreaterEqual", "Equal"}
Goals == {"Min", "Max"}

\* faulty variant: the relation is not flipped with the signs (C22 depends on the flip)
normalise_keeps_relation(c) ==
    IF RLt(c.rhs, Zero)
    THEN [coefficients |-> [j \in DOMAIN c.coefficients |-> RNeg(c.coefficients[j])],
          rhs |-> RNeg(c.rhs),
          relation |-> c.relation]
    ELSE c

\* Constraint::normalise
normalise(c) ==
    IF RLt(c.rhs, Zero)
    THEN [coefficients |-> [j \in DOMAIN c.coefficients |-> RNeg(c.coefficients[j])],
          rhs |-> RNeg(c.rhs),
          relation |-> CASE c.relation = "LessEqual" -> "GreaterEqual"
                         [] c.relation = "GreaterEqual" -> "LessEqual"
                         [] OTHER -> "Equal"]
    ELSE c

\* faulty variant: a surplus column gets +1 like a slack column (C23 depends on the sign)
slack_row_unsigned(rel, i, m) ==
    [j \in 1..m |-> IF j = i + 1 /\ rel # "Equal" THEN One ELSE Zero]

\* the slack row pushed for constraint i (0-based) of m
slack_row(rel, i, m) ==
    [j \in 1..m |->
        IF j = i + 1
        THEN CASE rel = "LessEqual" -> One
               [] rel = "GreaterEqual" -> RNeg(One)
               [] OTHER -> Zero
        ELSE Zero]

\* the z-row entry of an objective coefficient
objective_entry(goal, val) == IF goal = "Max" THEN RNeg(val) ELSE val

\* Problem::into_tableau_form
into_tableau_form(p) ==
    LET m == Len(p.constraints)
        n == Len(p.objective)
        norm == [i \in 1..m |-> normalise(p.constraints[i])]
    IN  [coefficients |-> [i \in 1..m |-> norm[i].coefficients],
         slack |-> [i \in 1..m |-> slack_row(norm[i].relation, i - 1, m)],
         rhs |-> [i \in 1..m |-> norm[i].rhs],
         basis |-> [i \in 1..m |-> n + (i - 1)],
         nonbasis |-> [j \in 1..n |-> j - 1],
         z_coeffs |-> [j \in 1..n |-> objective_entry(p.goal, p.objective[j])],
         z_slack |-> [j \in 1..m |-> Zero],
         z_rhs |-> Zero]

(***************************************************************************)
(* Tableau: shape and logical indexing.                                    *)
(***************************************************************************)
rows(tab) == Len(tab.coefficients)
n_structural(tab) == Len(tab.z_coeffs)
\* Tableau::cols: structural + slack + the rhs column
cols(tab) == Len(tab.z_coeffs) + Len(tab.z_slack) + 1

\* Index<(usize, usize)> for Tableau, through resolve_column
At(tab, r, c) ==
    LET a == n_structural(tab)
        s == Len(tab.z_slack)
    IN  IF c < a THEN tab.coefficients[r + 1][c + 1]
        ELSE IF c < a + s THEN tab.slack[r + 1][c - a + 1]
        ELSE tab.rhs[r + 1]

\* a constraint row as one logical row (TableauRow / TableauRowMut)
row(tab, r) == tab.coefficients[r + 1] \o tab.slack[r + 1] \o <<tab.rhs[r + 1]>>

\* the z-row as one logical row
z_row(tab) == tab.z_coeffs \o tab.z_slack \o <<tab.z_rhs>>

\* faulty variant: a zero right-hand side counts as negative (C6 depends on the strict test)
has_negative_rhs_or_zero(tab) == \E i \in DOMAIN tab.rhs : RLe(tab.rhs[i], Zero)

\* Tableau::has_negative_rhs
has_negative_rhs(tab) == \E i \in DOMAIN tab.rhs : RLt(tab.rhs[i], Zero)

(***************************************************************************)
(* Pivot engine: column rules, ratio test, pivot.                          *)
(***************************************************************************)
None == <<>>
Some(x) == <<x>>

\* the reduced costs of the z-row, structural entries followed by slack entries
z_vars(tab) == tab.z_coeffs \o tab.z_slack

RECURSIVE most_negative_scan_last_tie(_, _, _, _)
\* faulty variant: <= in place of <, so the last of equal entries wins (C19 depends on <)
most_negative_scan_last_tie(z, j, best_col, min_val) ==
    IF j >= Len(z) THEN best_col
    ELSE IF RLe(z[j + 1], min_val)
         THEN most_negative_scan_last_tie(z, j + 1, Some(j), z[j + 1])
         ELSE most_negative_scan_last_tie(z, j + 1, best_col, min_val)

RECURSIVE most_negative_scan(_, _, _, _)
\* the two loops of find_pivot_col_most_negative over z[j+1 ..], carrying (best_col, min_val)
most_negative_scan(z, j, best_col, min_val) ==
    IF j >= Len(z) THEN best_col
    ELSE IF RLt(z[j + 1], min_val)
         THEN most_negative_scan(z, j + 1, Some(j), z[j + 1])
         ELSE most_negative_scan(z, j + 1, best_col, min_val)

\* Tableau::find_pivot_col_most_negative (Dantzig's rule)
find_pivot_col_most_negative(tab) == most_negative_scan(z_vars(tab), 0, None, Zero)

RECURSIVE bland_scan_last(_, _)
\* faulty variant: the last negative entry wins (C21 depends on the first)
bland_scan_last(z, j) ==
    IF j >= Len(z) THEN None
    ELSE IF bland_scan_last(z, j + 1) # None THEN bland_scan_last(z, j + 1)
         ELSE IF RLt(z[j + 1], Zero) THEN Some(j) ELSE None

RECURSIVE bland_scan(_, _)
\* the loops of find_pivot_col_bland over z[j+1 ..]
bland_scan(z, j) ==
    IF j >= Len(z) THEN None
    ELSE IF RLt(z[j + 1], Zero) THEN Some(j)
         ELSE bland_scan(z, j + 1)

\* Tableau::find_pivot_col_bland (Bland's rule)
find_pivot_col_bland(tab) == bland_scan(z_vars(tab), 0)

RECURSIVE ratio_scan_last_tie(_, _, _, _, _)
\* faulty variant: <= in place of <, so the last of equal ratios wins (C20 depends on <)
ratio_scan_last_tie(tab, col, i, best_row, min_ratio) ==
    IF i >= rows(tab) THEN best_row
    ELSE LET entry == At(tab, i, col)
         IN  IF RLt(Zero, entry)
             THEN LET ratio == RDiv(tab.rhs[i + 1], entry)
                  IN  IF min_ratio = None \/ RLe(ratio, min_ratio[1])
                      THEN ratio_scan_last_tie(tab, col, i + 1, Some(i), Some(ratio))
                      ELSE ratio_scan_last_tie(tab, col, i + 1, best_row, min_ratio)
             ELSE ratio_scan_last_tie(tab, col, i + 1, best_row, min_ratio)

RECURSIVE ratio_scan_largest(_, _, _, _, _)
\* faulty variant: the largest ratio wins (C27 depends on the minimum)
ratio_scan_largest(tab, col, i, best_row, min_ratio) ==
    IF i >= rows(tab) THEN best_row
    ELSE LET entry == At(tab, i, col)
         IN  IF RLt(Zero, entry)
             THEN LET ratio == RDiv(tab.rhs[i + 1], entry)
                  IN  IF min_ratio = None \/ RLt(min_ratio[1], ratio)
                      THEN ratio_scan_largest(tab, col, i + 1, Some(i), Some(ratio))
                      ELSE ratio_scan_largest(tab, col, i + 1, best_row, min_ratio)
             ELSE ratio_scan_largest(tab, col, i + 1, best_row, min_ratio)

RECURSIVE ratio_scan_nonzero(_, _, _, _, _)
\* faulty variant: negative entries take part in the test (C28 depends on entry > 0)
ratio_scan_nonzero(tab, col, i, best_row, min_ratio) ==
    IF i >= rows(tab) THEN best_row
    ELSE LET entry == At(tab, i, col)
         IN  IF entry # Zero
             THEN LET ratio == RDiv(tab.rhs[i + 1], entry)
                  IN  IF min_ratio = None \/ RLt(ratio, min_ratio[1])
                      THEN ratio_scan_nonzero(tab, col, i + 1, Some(i), Some(ratio))
                      ELSE ratio_scan_nonzero(tab, col, i + 1, best_row, min_ratio)
             ELSE ratio_scan_nonzero(tab, col, i + 1, best_row, min_ratio)

RECURSIVE ratio_scan(_, _, _, _, _)
\* the loop of ratio_test over rows i.., carrying (best_row, min_ratio)
ratio_scan(tab, col, i, best_row, min_ratio) ==
    IF i >= rows(tab) THEN best_row
    ELSE LET entry == At(tab, i, col)
         IN  IF RLt(Zero, entry)
             THEN LET ratio == RDiv(tab.rhs[i + 1], entry)
                  IN  IF min_ratio = None \/ RLt(ratio, min_ratio[1])
                      THEN ratio_scan(tab, col, i + 1, Some(i), Some(ratio))
                      ELSE ratio_scan(tab, col, i + 1, best_row, min_ratio)
             ELSE ratio_scan(tab, col, i + 1, best_row, min_ratio)

\* Tableau::ratio_test (minimum ratio test)
ratio_test(tab, col) == ratio_scan(tab, col, 0, None, None)

PivotAt(r, k) == [kind |-> "Pivot", row |-> r, col |-> k]
PivotOptimal == [kind |-> "Optimal"]
PivotUnbounded == [kind |-> "Unbounded"]

\* the combined selector over a column rule's result
select_pivot(tab, col) ==
    IF col = None THEN PivotOptimal
    ELSE LET r == ratio_test(tab, col[1])
         IN  IF r = None THEN PivotUnbounded ELSE PivotAt(r[1], col[1])

\* Tableau::find_pivot_indices (Dantzig + ratio test)
find_pivot_indices(tab) == select_pivot(tab, find_pivot_col_most_negative(tab))

\* Tableau::find_pivot_indices_bland (Bland + ratio test)
find_pivot_indices_bland(tab) == select_pivot(tab, find_pivot_col_bland(tab))

\* pivot, the pivot row: every entry (rhs included) times 1 / pivot_element
scaled_pivot_row(tab, row_idx, col_idx) ==
    LET inv_pivot == RDiv(One, At(tab, row_idx, col_idx))
    IN  [j \in 1..cols(tab) |-> RMul(row(tab, row_idx)[j], inv_pivot)]

\* pivot, another constraint row i: row_i - factor * normalized pivot row
eliminated_row(tab, i, col_idx, p_row) ==
    LET factor == At(tab, i, col_idx)
        current_row == row(tab, i)
    IN  [j \in 1..cols(tab) |-> RSub(current_row[j], RMul(factor, p_row[j]))]

\* faulty variant: the z-row is left as it was (C1 depends on its reduction)
reduced_z_row_stale(tab, col_idx, p_row) == z_row(tab)

\* pivot, the z-row (z_rhs last): z - z_factor * normalized pivot row
reduced_z_row(tab, col_idx, p_row) ==
    LET z_factor == z_row(tab)[col_idx + 1]
    IN  [j \in 1..cols(tab) |-> RSub(z_row(tab)[j], RMul(z_factor, p_row[j]))]

\* Tableau::pivot
pivot(tab, row_idx, col_idx) ==
    LET num_cols == cols(tab)
        var_cols == num_cols - 1
        n == n_structural(tab)
        m == rows(tab)
        p_row == scaled_pivot_row(tab, row_idx, col_idx)
        new_row(i) == IF i = row_idx THEN p_row ELSE eliminated_row(tab, i, col_idx, p_row)
        new_z == reduced_z_row(tab, col_idx, p_row)
    IN  [coefficients |-> [i \in 1..m |-> SubSeq(new_row(i - 1), 1, n)],
         slack |-> [i \in 1..m |-> SubSeq(new_row(i - 1), n + 1, var_cols)],
         rhs |-> [i \in 1..m |-> new_row(i - 1)[num_cols]],
         basis |-> [tab.basis EXCEPT ![row_idx + 1] = col_idx],
         nonbasis |-> tab.nonbasis,
         z_coeffs |-> SubSeq(new_z, 1, n),
         z_slack |-> SubSeq(new_z, n + 1, var_cols),
         z_rhs |-> new_z[num_cols]]

\* Tableau::current_vertex: zeros, then vertex[var_idx] = rhs[row] for each
\* (row, var_idx) of enumerate(basis) with var_idx < n_vars, in row order
current_vertex(tab, n_vars) ==
    [j \in 1..n_vars |->
        LET holders == {i \in DOMAIN tab.basis : tab.basis[i] = j - 1}
        IN  IF holders = {} THEN Zero
            ELSE tab.rhs[CHOOSE i \in holders : \A h \in holders : h <= i]]

(***************************************************************************)
(* StandardForm and the InitSource of a solver.                            *)
(***************************************************************************)
\* StandardForm::n_vars
sf_n_vars(sf) == Len(sf.c) - Len(sf.slack_indices)

\* faulty variant: only the number of slack columns is asserted (C24 depends on
\* the assertion on their positions)
into_tableau_accepts_count_only(sf) == Len(sf.slack_indices) = Len(sf.a)

\* the assertions of StandardForm::into_tableau: one slack per row, in the last m columns
into_tableau_accepts(sf) ==
    /\ Len(sf.slack_indices) = Len(sf.a)
    /\ \A i \in DOMAIN sf.slack_indices : sf.slack_indices[i] = sf_n_vars(sf) + (i - 1)

\* Tableau::new
tableau_new(coefficients, slack, rhs, z_coeffs, z_slack, z_rhs) ==
    LET m == Len(coefficients)
        n == Len(z_coeffs)
    IN  [coefficients |-> coefficients, slack |-> slack, rhs |-> rhs,
         basis |-> [i \in 1..m |-> n + (i - 1)],
         nonbasis |-> [j \in 1..n |-> j - 1],
         z_coeffs |-> z_coeffs, z_slack |-> z_slack, z_rhs |-> z_rhs]

\* StandardForm::into_tableau, where its assertions hold
into_tableau(sf) ==
    LET m == Len(sf.a)
        n == sf_n_vars(sf)
    IN  tableau_new([r \in 1..m |-> SubSeq(sf.a[r], 1, n)],
                    [r \in 1..m |-> SubSeq(sf.a[r], n + 1, n + m)],
                    sf.b, SubSeq(sf.c, 1, n), SubSeq(sf.c, n + 1, n + m), Zero)

\* faulty variant: slack_index is never advanced (C30 depends on one column per row)
slack_index_at_fixed(p, i) == Len(p.objective)

\* the slack column of row i (1-based) in into_standard_form: slack_index when the
\* loop reaches the row, one past the objective per earlier row that is not an equality
slack_index_at(p, i) ==
    Len(p.objective) + Cardinality({h \in 1..(i - 1) : p.constraints[h].relation # "Equal"})

\* Problem::into_standard_form
into_standard_form(p) ==
    LET n == Len(p.objective)
        m == Len(p.constraints)
        surplus_slack == Cardinality({h \in 1..m : p.constraints[h].relation # "Equal"})
        total_cols == n + surplus_slack
        norm == [i \in 1..m |-> normalise(p.constraints[i])]
    IN  [a |-> [i \in 1..m |->
                 [j \in 1..total_cols |->
                     IF j <= n THEN norm[i].coefficients[j]
                     ELSE IF norm[i].relation # "Equal" /\ j = slack_index_at(p, i) + 1
                          THEN (IF norm[i].relation = "LessEqual" THEN One ELSE RNeg(One))
                          ELSE Zero]],
         b |-> [i \in 1..m |-> norm[i].rhs],
         c |-> [j \in 1..total_cols |->
                 IF j <= n THEN objective_entry(p.goal, p.objective[j]) ELSE Zero],
         goal |-> p.goal,
         slack_indices |-> [k \in 1..surplus_slack |-> n + (k - 1)]]

FromProblem(p) == [kind |-> "Problem", problem |-> p]
FromStandardForm(sf) == [kind |-> "StandardForm", sf |-> sf]

\* InitSource::into_tableau_and_n_vars
into_tableau_and_n_vars(src) ==
    IF src.kind = "Problem"
    THEN [n_vars |-> Len(src.problem.objective), tableau |-> into_tableau_form(src.problem)]
    ELSE [n_vars |-> sf_n_vars(src.sf), tableau |-> into_tableau(src.sf)]

(***************************************************************************)
(* The solvers.  One record holds the fields of a solver; `strategy` says  *)
(* which of the three types it is.  Fields a type does not have keep the   *)
(* value given by new_solver.                                              *)
(***************************************************************************)
Strategies == {"primal", "two_phase", "shadow"}

\* SimplexSolver::new, TwoPhaseSimplexSolver::new, ShadowVertexSimplexSolver::new
new_solver(strategy) ==
    [strategy |-> strategy, tableau |-> None, n_vars |-> 0, iteration |-> 0,
     done |-> FALSE, last_step |-> None, phase |-> "OptimizeD",
     c_coeffs |-> <<>>, c_slack |-> <<>>, c_rhs |-> Zero,
     d_coeffs |-> <<>>, d_slack |-> <<>>, d_rhs |-> Zero]

\* TwoPhaseSimplexSolver::set_z_to_d, on the solver's tableau
set_z_to_d(s) ==
    LET tab == s.tableau[1]
    IN  [s EXCEPT !.tableau = Some(
            [tab EXCEPT !.z_coeffs = [i \in DOMAIN tab.z_coeffs |-> RNeg(s.c_coeffs[i])],
                        !.z_slack = [i \in DOMAIN tab.z_slack |-> RNeg(s.c_slack[i])],
                        !.z_rhs = RNeg(s.c_rhs)])]

\* faulty variant: the done flag is not cleared (C17 depends on the reset)
simplex_init_keeps_done(s, src) ==
    LET lowered == into_tableau_and_n_vars(src)
    IN  [s EXCEPT !.n_vars = lowered.n_vars, !.tableau = Some(lowered.tableau),
                  !.iteration = 0, !.last_step = None]

\* SimplexSolver::init
simplex_init(s, src) ==
    LET lowered == into_tableau_and_n_vars(src)
    IN  [s EXCEPT !.n_vars = lowered.n_vars, !.tableau = Some(lowered.tableau),
                  !.iteration = 0, !.done = FALSE, !.last_step = None]

\* TwoPhaseSimplexSolver::init
two_phase_init(s, src) ==
    LET lowered == into_tableau_and_n_vars(src)
        tab == lowered.tableau
    IN  set_z_to_d([s EXCEPT !.n_vars = lowered.n_vars,
                             !.c_coeffs = tab.z_coeffs, !.c_slack = tab.z_slack,
                             !.c_rhs = tab.z_rhs, !.tableau = Some(tab),
                             !.iteration = 0, !.done = FALSE, !.last_step = None,
                             !.phase = "OptimizeD"])

\* ShadowVertexSimplexSolver::init
shadow_init(s, src) ==
    LET lowered == into_tableau_and_n_vars(src)
        tab == lowered.tableau
        fresh_d == s.d_coeffs = <<>>
    IN  [s EXCEPT !.n_vars = lowered.n_vars,
                  !.c_coeffs = tab.z_coeffs, !.c_slack = tab.z_slack, !.c_rhs = tab.z_rhs,
                  !.d_coeffs = IF fresh_d THEN [j \in DOMAIN tab.z_coeffs |-> Zero] ELSE @,
                  !.d_slack = IF fresh_d THEN [j \in DOMAIN tab.z_slack |-> Zero] ELSE @,
                  !.d_rhs = IF fresh_d THEN Zero ELSE @,
                  !.tableau = Some(tab),
                  !.iteration = 0, !.done = FALSE, !.last_step = None]

\* Solver::init
init(s, src) ==
    CASE s.strategy = "primal" -> simplex_init(s, src)
      [] s.strategy = "two_phase" -> two_phase_init(s, src)
      [] OTHER -> shadow_init(s, src)

\* Solver::find_initial_bfs (the same body in the three solvers)
find_initial_bfs(s) ==
    IF s.tableau # None /\ has_negative_rhs(s.tableau[1])
    THEN [ok |-> FALSE, err |-> "Infeasible: initial tableau has negative RHS"]
    ELSE [ok |-> TRUE, err |-> ""]

\* TableauRowMut::sub_assign_scaled on a logical row: self[j] -= other[j] * k
sub_assign_scaled(self, other, k) ==
    [j \in DOMAIN self |-> RSub(self[j], RMul(other[j], k))]

RECURSIVE reduce_basic_rows(_, _, _, _)
\* the loop of set_z_to_c over the constraint rows i, i+1, ..
reduce_basic_rows(z, tab, c_b, i) ==
    IF i >= rows(tab) THEN z
    ELSE reduce_basic_rows(sub_assign_scaled(z, row(tab, i), c_b[i + 1]), tab, c_b, i + 1)

\* TwoPhaseSimplexSolver::set_z_to_c
set_z_to_c(s) ==
    LET tab == s.tableau[1]
        n == Len(s.c_coeffs)
        m == rows(tab)
        c_b == [i \in 1..m |->
                  IF tab.basis[i] < n THEN s.c_coeffs[tab.basis[i] + 1]
                  ELSE s.c_slack[tab.basis[i] - n + 1]]
        reduced == reduce_basic_rows(s.c_coeffs \o s.c_slack \o <<s.c_rhs>>, tab, c_b, 0)
        negated == RNeg(reduced[n + m + 1])
    IN  [s EXCEPT !.tableau = Some(
            [tab EXCEPT !.z_coeffs = SubSeq(reduced, 1, n),
                        !.z_slack = SubSeq(reduced, n + 1, n + m),
                        !.z_rhs = RAdd(RAdd(negated, s.c_rhs), s.c_rhs)])]

\* w.get(j).copied().unwrap_or(T::zero())
get_or_zero(w, j) == IF j + 1 \in DOMAIN w THEN w[j + 1] ELSE Zero

\* the objective coefficient of variable j in (w_coeffs, w_slack)
weight(w_coeffs, w_slack, n, j) ==
    IF j < n THEN get_or_zero(w_coeffs, j) ELSE get_or_zero(w_slack, j - n)

RECURSIVE basis_dot(_, _, _, _, _, _)
\* the inner loop of reduced_costs: sum over rows i.. of w_bi * tableau[(i, j)]
basis_dot(tab, n, w_coeffs, w_slack, j, i) ==
    IF i = 0 THEN Zero
    ELSE RAdd(basis_dot(tab, n, w_coeffs, w_slack, j, i - 1),
              RMul(weight(w_coeffs, w_slack, n, tab.basis[i]), At(tab, i - 1, j)))

\* ShadowVertexSimplexSolver::reduced_costs
reduced_costs(tab, n, w_coeffs, w_slack) ==
    [c \in 1..(n + rows(tab)) |->
        RSub(weight(w_coeffs, w_slack, n, c - 1),
             basis_dot(tab, n, w_coeffs, w_slack, c - 1, rows(tab)))]

\* EpsilonThreshold::is_strictly_positive for Rational64
is_strictly_positive(x) == RLt(Zero, x)

\* whether column j (0-based) is a parametric candidate, and its lambda
shadow_candidate(r_d, r_c, j) ==
    /\ ~RLt(r_d[j + 1], Zero)
    /\ RLt(r_c[j + 1], Zero)
    /\ is_strictly_positive(RSub(r_d[j + 1], r_c[j + 1]))
    /\ LET lambda_j == RDiv(r_d[j + 1], RSub(r_d[j + 1], r_c[j + 1]))
       IN  ~RLe(lambda_j, Zero) /\ ~RLt(One, lambda_j)

shadow_lambda(r_d, r_c, j) == RDiv(r_d[j + 1], RSub(r_d[j + 1], r_c[j + 1]))

RECURSIVE shadow_scan_largest(_, _, _, _, _)
\* faulty variant: keeps the candidate of largest lambda (C14 depends on the minimum)
shadow_scan_largest(r_d, r_c, j, best_col, best_lambda) ==
    IF j >= Len(r_d) THEN best_col
    ELSE IF shadow_candidate(r_d, r_c, j)
            /\ (best_lambda = None \/ RLt(best_lambda[1], shadow_lambda(r_d, r_c, j)))
         THEN shadow_scan_largest(r_d, r_c, j + 1, Some(j), Some(shadow_lambda(r_d, r_c, j)))
         ELSE shadow_scan_largest(r_d, r_c, j + 1, best_col, best_lambda)

RECURSIVE shadow_scan(_, _, _, _, _)
\* the first loop of find_shadow_pivot_col over columns j.., carrying (best_col, best_lambda)
shadow_scan(r_d, r_c, j, best_col, best_lambda) ==
    IF j >= Len(r_d) THEN best_col
    ELSE IF shadow_candidate(r_d, r_c, j)
            /\ (best_lambda = None \/ RLt(shadow_lambda(r_d, r_c, j), best_lambda[1]))
         THEN shadow_scan(r_d, r_c, j + 1, Some(j), Some(shadow_lambda(r_d, r_c, j)))
         ELSE shadow_scan(r_d, r_c, j + 1, best_col, best_lambda)

\* faulty variant: the fallback takes the most negative r_c, not the first negative one
\* (C15 depends on the fallback being Bland's rule)
find_shadow_pivot_col_dantzig_fallback(r_d, r_c) ==
    LET best_col == shadow_scan(r_d, r_c, 0, None, None)
    IN  IF best_col # None THEN best_col ELSE most_negative_scan(r_c, 0, None, Zero)

\* ShadowVertexSimplexSolver::find_shadow_pivot_col
find_shadow_pivot_col(r_d, r_c) ==
    LET best_col == shadow_scan(r_d, r_c, 0, None, None)
    IN  IF best_col # None THEN best_col ELSE bland_scan(r_c, 0)

\* ShadowVertexSimplexSolver::try_pivot_step
shadow_try_pivot_step(s) ==
    LET tab == s.tableau[1]
        n == n_structural(tab)
        r_d == reduced_costs(tab, n, s.d_coeffs, s.d_slack)
    IN  select_pivot(tab, find_shadow_pivot_col(r_d, z_vars(tab)))

\* the PivotResult that the selector of the solver's step() returns
selected(s) ==
    CASE s.strategy = "primal" -> find_pivot_indices(s.tableau[1])
      [] s.strategy = "two_phase" -> find_pivot_indices_bland(s.tableau[1])
      [] OTHER -> shadow_try_pivot_step(s)

\* faulty variant: the pivot is applied but not counted (C4 depends on the increment)
apply_pivot_uncounted(s, res) ==
    [s EXCEPT !.tableau = Some(pivot(s.tableau[1], res.row, res.col))]

\* tab.pivot(row, col); self.iteration += 1
apply_pivot(s, res) ==
    [s EXCEPT !.tableau = Some(pivot(s.tableau[1], res.row, res.col)),
              !.iteration = @ + 1]

\* the tail of step(): build the Step and store it in last_step
emit(s, status) ==
    [s EXCEPT !.last_step = Some(
        [iteration |-> s.iteration,
         primal |-> current_vertex(s.tableau[1], s.n_vars),
         objective_value |-> s.tableau[1].z_rhs,
         status |-> status])]

\* faulty variant: Unbounded is reported without setting done (C5 depends on the flag)
simplex_step_unbounded_not_done(s) ==
    LET res == find_pivot_indices(s.tableau[1])
    IN  CASE res.kind = "Pivot" -> emit(apply_pivot(s, res), "InProgress")
          [] res.kind = "Optimal" -> emit([s EXCEPT !.done = TRUE], "Optimal")
          [] OTHER -> emit(s, "Unbounded")

\* faulty variant: an entering column without a leaving row is reported as Optimal
\* (C13 depends on the Unbounded arm)
simplex_step_unbounded_as_optimal(s) ==
    LET res == find_pivot_indices(s.tableau[1])
    IN  CASE res.kind = "Pivot" -> emit(apply_pivot(s, res), "InProgress")
          [] OTHER -> emit([s EXCEPT !.done = TRUE], "Optimal")

\* faulty variant: a step on a solver that is done reports InProgress (C29 depends
\* on the terminal Step being repeated)
simplex_step_terminal_once(s) ==
    LET res == find_pivot_indices(s.tableau[1])
    IN  CASE res.kind = "Pivot" -> emit(apply_pivot(s, res), "InProgress")
          [] s.done -> emit(s, "InProgress")
          [] res.kind = "Optimal" -> emit([s EXCEPT !.done = TRUE], "Optimal")
          [] OTHER -> emit([s EXCEPT !.done = TRUE], "Unbounded")

\* SimplexSolver::step
simplex_step(s) ==
    LET res == find_pivot_indices(s.tableau[1])
    IN  CASE res.kind = "Pivot" -> emit(apply_pivot(s, res), "InProgress")
          [] res.kind = "Optimal" -> emit([s EXCEPT !.done = TRUE], "Optimal")
          [] OTHER -> emit([s EXCEPT !.done = TRUE], "Unbounded")

\* faulty variant: the d-phase commits to the selector's verdict instead of
\* switching to c (C10 depends on the switch)
two_phase_step_single_phase(s) ==
    LET res == find_pivot_indices_bland(s.tableau[1])
    IN  CASE res.kind = "Pivot" -> emit(apply_pivot(s, res), "InProgress")
          [] res.kind = "Optimal" -> emit([s EXCEPT !.done = TRUE], "Optimal")
          [] OTHER -> emit([s EXCEPT !.done = TRUE], "Unbounded")

\* TwoPhaseSimplexSolver::step (with try_pivot_step)
two_phase_step(s) ==
    LET res == find_pivot_indices_bland(s.tableau[1])
    IN  IF s.phase = "OptimizeD"
        THEN IF res.kind = "Pivot"
             THEN emit(apply_pivot(s, res), "InProgress")
             ELSE emit([set_z_to_c(s) EXCEPT !.phase = "OptimizeC"], "InProgress")
        ELSE CASE res.kind = "Pivot" -> emit(apply_pivot(s, res), "InProgress")
               [] res.kind = "Optimal" -> emit([s EXCEPT !.done = TRUE], "Optimal")
               [] OTHER -> emit([s EXCEPT !.done = TRUE], "Unbounded")

\* ShadowVertexSimplexSolver::step
shadow_step(s) ==
    LET res == shadow_try_pivot_step(s)
    IN  CASE res.kind = "Pivot" -> emit(apply_pivot(s, res), "InProgress")
          [] res.kind = "Optimal" -> emit([s EXCEPT !.done = TRUE], "Optimal")
          [] OTHER -> emit([s EXCEPT !.done = TRUE], "Unbounded")

\* ShadowVertexSimplexSolver::set_auxiliary_objective
set_auxiliary_objective(s, d_coeffs, d_slack, d_rhs) ==
    [s EXCEPT !.d_coeffs = d_coeffs, !.d_slack = d_slack, !.d_rhs = d_rhs]

RECURSIVE shadow_d_val(_, _, _)
\* the loop of current_shadow_point: d_rhs plus the terms of basis rows 0 .. i-1
shadow_d_val(s, n, i) ==
    IF i = 0 THEN s.d_rhs
    ELSE RAdd(shadow_d_val(s, n, i - 1),
              RMul(weight(s.d_coeffs, s.d_slack, n, s.tableau[1].basis[i]),
                   s.tableau[1].rhs[i]))

\* ShadowVertexSimplexSolver::current_shadow_point
current_shadow_point(s) ==
    LET tab == s.tableau[1]
    IN  <<shadow_d_val(s, n_structural(tab), rows(tab)), tab.z_rhs>>

\* Solver::step
step(s) ==
    CASE s.strategy = "primal" -> simplex_step(s)
      [] s.strategy = "two_phase" -> two_phase_step(s)
      [] OTHER -> shadow_step(s)

Terminal == {"Optimal", "Unbounded", "Infeasible"}

\* faulty variant: Unbounded falls through to the error arm (C7 depends on its own arm)
solution_of_unbounded_falls_through(last) ==
    CASE last.status = "Optimal" ->
            [ok |-> TRUE, x |-> last.primal, objective |-> last.objective_value,
             status |-> "Optimal", err |-> ""]
      [] last.status = "Infeasible" ->
            [ok |-> TRUE, x |-> <<>>, objective |-> Zero, status |-> "Infeasible", err |-> ""]
      [] OTHER ->
            [ok |-> FALSE, x |-> <<>>, objective |-> Zero, status |-> "InProgress",
             err |-> "Solver stopped prematurely"]

\* the Result that solve builds from the last Step
solution_of(last) ==
    CASE last.status = "Optimal" ->
            [ok |-> TRUE, x |-> last.primal, objective |-> last.objective_value,
             status |-> "Optimal", err |-> ""]
      [] last.status = "Infeasible" ->
            [ok |-> TRUE, x |-> <<>>, objective |-> Zero, status |-> "Infeasible", err |-> ""]
      [] last.status = "Unbounded" ->
            [ok |-> TRUE, x |-> <<>>, objective |-> Zero, status |-> "Unbounded", err |-> ""]
      [] OTHER ->
            [ok |-> FALSE, x |-> <<>>, objective |-> Zero, status |-> "InProgress",
             err |-> "Solver stopped prematurely"]

\* the Err that solve propagates from find_initial_bfs
solve_error(msg) ==
    [ok |-> FALSE, x |-> <<>>, objective |-> Zero, status |-> "InProgress", err |-> msg]

(***************************************************************************)
(* The inputs: Problems and StandardForms a host can build.                *)
(***************************************************************************)
CoefVals == {FromInteger(v) : v \in -1..MaxCoef}
RhsVals == {FromInteger(v) : v \in -1..MaxRhs}

\* (variables, constraints) of the enumerated Problems
Shapes == {<<1, 1>>, <<1, 2>>, <<2, 1>>}

\* normalise turns a negative right-hand side into a positive one, so the
\* two-constraint Problems take theirs from 0..MaxRhs
RhsOf(m) == IF m = 1 THEN RhsVals ELSE {r \in RhsVals : ~RLt(r, Zero)}

Constraints(n, m) ==
    [coefficients : SeqsOfLen(CoefVals, n), relation : Relations, rhs : RhsOf(m)]

\* UNION SS, taken one set at a time
RECURSIVE UnionOf(_)
UnionOf(SS) ==
    IF SS = {} THEN {}
    ELSE LET S == CHOOSE S \in SS : TRUE IN S \cup UnionOf(SS \ {S})

\* Problem::new followed by add_constraint calls
ShapedProblems ==
    UnionOf({[objective : SeqsOfLen(CoefVals, sh[1]), goal : Goals,
            constraints : SeqsOfLen(Constraints(sh[1], sh[2]), sh[2])] : sh \in Shapes})

Q(v) == FromInteger(v)
Con(coeffs, rel, r) == [coefficients |-> coeffs, relation |-> rel, rhs |-> r]
Prob(obj, goal, cons) == [objective |-> obj, goal |-> goal, constraints |-> cons]

\* the Problems of the repository's tests and of the specification's scenarios
ScenarioProblems ==
    { Prob(<<Q(3), Q(2)>>, "Max", <<Con(<<Q(1), Q(1)>>, "LessEqual", Q(4)),
                                    Con(<<Q(2), Q(1)>>, "LessEqual", Q(5))>>),
      Prob(<<Q(1), Q(1)>>, "Min", <<Con(<<Q(1), Q(0)>>, "LessEqual", Q(5)),
                                    Con(<<Q(0), Q(1)>>, "LessEqual", Q(5))>>),
      Prob(<<Q(1), Q(1)>>, "Max", <<Con(<<Q(1), Q(0)>>, "LessEqual", Q(5)),
                                    Con(<<Q(0), Q(1)>>, "GreaterEqual", Q(2)),
                                    Con(<<Q(1), Q(1)>>, "Equal", Q(10))>>),
      Prob(<<Q(3), Q(2)>>, "Max", <<Con(<<Q(2), Q(1)>>, "LessEqual", Q(10)),
                                    Con(<<Q(1), Q(1)>>, "GreaterEqual", Q(4))>>),
      Prob(<<Q(3), Q(5)>>, "Max", <<Con(<<Q(1), Q(1)>>, "LessEqual", Q(10))>>),
      Prob(<<Q(1)>>, "Max", <<Con(<<Q(-1)>>, "LessEqual", Q(1))>>) }

Problems == ShapedProblems \cup ScenarioProblems

\* StandardForm::new with one slack column per row in the last m columns: the
\* rows of a are (coefficients, unit slack), b is any vector, c has zero slack costs
BuiltStandardForms ==
    UnionOf({{[a |-> [i \in 1..sh[2] |-> co[i] \o [j \in 1..sh[2] |-> IF j = i THEN One ELSE Zero]],
             b |-> b,
             c |-> obj \o [j \in 1..sh[2] |-> Zero],
             goal |-> "Min",
             slack_indices |-> [i \in 1..sh[2] |-> sh[1] + (i - 1)]] :
                co \in SeqsOfLen(SeqsOfLen(CoefVals, sh[1]), sh[2]),
                b \in SeqsOfLen(RhsVals, sh[2]),
                obj \in SeqsOfLen(CoefVals, sh[1])} : sh \in Shapes})

Sources == {FromProblem(p) : p \in Problems} \cup {FromStandardForm(sf) : sf \in BuiltStandardForms}

\* the sources a host re-initialises a used solver with:
\* scenario 1 (two variables, two constraints) and the unbounded scenario (one, one)
ReinitSources ==
    { FromProblem(Prob(<<Q(3), Q(2)>>, "Max", <<Con(<<Q(1), Q(1)>>, "LessEqual", Q(4)),
                                                Con(<<Q(2), Q(1)>>, "LessEqual", Q(5))>>)),
      FromProblem(Prob(<<Q(1)>>, "Max", <<Con(<<Q(-1)>>, "LessEqual", Q(1))>>)) }

(***************************************************************************)
(* State.                                                                  *)
(***************************************************************************)
VARIABLES
    tab,            \* a Tableau owned by the host itself (Some or None)
    pivots,         \* number of pivot calls the host made on tab
    lastPivot,      \* the host's last pivot call: row, col, the pivot element, the variable that left
    solver,         \* the solver: its fields
    source,         \* the InitSource of the solver's last init (Some or None)
    last_call,      \* the last call on the solver and what it returned
    pivoted,        \* the pivot the last step() performed (Some or None)
    terminal_seen,  \* some step() since the last init returned a terminal status
    switches,       \* number of phase changes since the last init
    c_track,        \* the tableau lowered at the last init, its z-row left at c, taken
                    \* through the pivots the solver has performed since
    pc,             \* "host": the host makes the calls; "solve" / "shadow_solve": a solve
                    \* or solve_with_shadow_history call is in its loop
    visited,        \* the bases (sets of basic variables) the solver's tableau has held
                    \* since the last init, in order
    nsteps,         \* number of step() calls since the last init made while not done
    aux_set,        \* set_auxiliary_objective was called since the last init
    history,        \* solve_with_shadow_history: its local history
    shadow_points,  \* solve_with_shadow_history: its local shadow_points
    probe           \* a call of a column or row rule on given arguments, and its result

vars == <<tab, pivots, lastPivot, solver, source, last_call, pivoted, terminal_seen, switches,
          c_track, pc, visited, nsteps, aux_set, history, shadow_points, probe>>
host_vars == <<tab, pivots, lastPivot>>
run_vars == <<visited, nsteps, aux_set>>
solver_vars == <<solver, source, last_call, pivoted, terminal_seen, switches, c_track, pc,
                 visited, nsteps, aux_set>>
shadow_run_vars == <<history, shadow_points>>

\* no rule has been called on its own
NoProbe == [call |-> [fn |-> "none"], applied |-> FALSE, ret |-> None]

(***************************************************************************)
(* A host pivoting a tableau it lowered itself (as the tests do).          *)
(***************************************************************************)
InitTableau ==
    /\ \E p \in Problems : tab = Some(into_tableau_form(p))
    /\ pivots = 0
    /\ lastPivot = None
    /\ solver = new_solver("primal")
    /\ source = None
    /\ last_call = [op |-> "new"]
    /\ pivoted = None
    /\ terminal_seen = FALSE
    /\ switches = 0
    /\ c_track = None
    /\ pc = "host"
    /\ visited = <<>>
    /\ nsteps = 0
    /\ aux_set = FALSE
    /\ history = <<>>
    /\ shadow_points = <<>>
    /\ probe = NoProbe

\* tab.pivot(r, k) at a non-zero entry of a variable column
PivotCall(r, k) ==
    /\ pivots < MaxPivots
    /\ At(tab[1], r, k) # Zero
    /\ tab' = Some(pivot(tab[1], r, k))
    /\ pivots' = pivots + 1
    /\ lastPivot' = Some([row |-> r, col |-> k, element |-> At(tab[1], r, k),
                          left |-> tab[1].basis[r + 1]])
    /\ UNCHANGED solver_vars
    /\ UNCHANGED <<shadow_run_vars, probe>>

NextTableau ==
    \E r \in 0..(rows(tab[1]) - 1) : \E k \in 0..(cols(tab[1]) - 2) : PivotCall(r, k)

SpecTableau == InitTableau /\ [][NextTableau]_vars

(***************************************************************************)
(* A host driving a solver.                                                *)
(***************************************************************************)
Init ==
    /\ tab = None
    /\ pivots = 0
    /\ lastPivot = None
    /\ \E st \in Strategies : solver = new_solver(st)
    /\ source = None
    /\ last_call = [op |-> "new"]
    /\ pivoted = None
    /\ terminal_seen = FALSE
    /\ switches = 0
    /\ c_track = None
    /\ pc = "host"
    /\ visited = <<>>
    /\ nsteps = 0
    /\ aux_set = FALSE
    /\ history = <<>>
    /\ shadow_points = <<>>
    /\ probe = NoProbe

\* the sources of the next init: any for a fresh solver, then the same one or a scenario
InitSources == IF source = None THEN Sources ELSE ReinitSources

\* into_tableau_and_n_vars returns (it panics on a StandardForm that into_tableau rejects)
Lowers(src) == IF src.kind = "Problem" THEN TRUE ELSE into_tableau_accepts(src.sf)

\* the tableau c_track starts from at init(src): kept for the two-phase solver only
tracked(s, src) ==
    IF s.strategy = "two_phase" THEN Some(into_tableau_and_n_vars(src).tableau) ELSE None

\* solver.init(src)
CallInit(src) ==
    /\ pc = "host"
    /\ Lowers(src)
    /\ solver' = init(solver, src)
    /\ source' = Some(src)
    /\ last_call' = [op |-> "init", was_done |-> solver.done, was_iteration |-> solver.iteration]
    /\ pivoted' = None
    /\ terminal_seen' = FALSE
    /\ switches' = 0
    /\ c_track' = tracked(solver, src)
    /\ visited' = <<Range(solver'.tableau[1].basis)>>
    /\ nsteps' = 0
    /\ aux_set' = FALSE
    /\ UNCHANGED pc
    /\ UNCHANGED host_vars
    /\ UNCHANGED <<shadow_run_vars, probe>>

\* solver.find_initial_bfs()
CallFindInitialBfs ==
    /\ pc = "host"
    /\ last_call' = [op |-> "find_initial_bfs", ret |-> find_initial_bfs(solver)]
    /\ UNCHANGED <<solver, source, pivoted, terminal_seen, switches, c_track, pc>>
    /\ UNCHANGED run_vars
    /\ UNCHANGED host_vars
    /\ UNCHANGED <<shadow_run_vars, probe>>

\* one call of step() and what the history variables record of it
StepCall ==
    /\ solver.tableau # None
    /\ LET sel == selected(solver)
           did_pivot == solver'.iteration # solver.iteration
       IN  /\ sel.kind = "Pivot" => solver.iteration < MaxIter
           /\ solver' = step(solver)
           /\ pivoted' = IF did_pivot
                         THEN Some([row |-> sel.row, col |-> sel.col,
                                    element |-> At(solver.tableau[1], sel.row, sel.col),
                                    cost |-> z_vars(solver.tableau[1])[sel.col + 1]])
                         ELSE None
           /\ c_track' = IF did_pivot /\ c_track # None
                         THEN Some(pivot(c_track[1], sel.row, sel.col))
                         ELSE c_track
    /\ terminal_seen' = (terminal_seen \/ solver'.last_step[1].status \in Terminal)
    /\ switches' = IF solver'.phase # solver.phase THEN switches + 1 ELSE switches
    /\ visited' = IF solver'.iteration # solver.iteration
                  THEN Append(visited, Range(solver'.tableau[1].basis))
                  ELSE visited
    /\ nsteps' = IF solver.done THEN nsteps ELSE nsteps + 1
    /\ UNCHANGED <<source, aux_set>>
    /\ UNCHANGED host_vars
    /\ UNCHANGED probe

\* solver.step() on an initialised solver
CallStep ==
    /\ pc = "host"
    /\ StepCall
    /\ last_call' = [op |-> "step", ret |-> solver'.last_step[1], was_done |-> solver.done]
    /\ UNCHANGED pc
    /\ UNCHANGED shadow_run_vars

\* solver.solve(src) up to its loop: init, then find_initial_bfs()?
CallSolve(src) ==
    /\ pc = "host"
    /\ Lowers(src)
    /\ solver' = init(solver, src)
    /\ source' = Some(src)
    /\ pivoted' = None
    /\ terminal_seen' = FALSE
    /\ switches' = 0
    /\ c_track' = tracked(solver, src)
    /\ visited' = <<Range(solver'.tableau[1].basis)>>
    /\ nsteps' = 0
    /\ aux_set' = FALSE
    /\ IF find_initial_bfs(solver').ok
       THEN /\ pc' = "solve"
            /\ last_call' = [op |-> "solve_enter"]
       ELSE /\ pc' = "host"
            /\ last_call' = [op |-> "solve", ret |-> solve_error(find_initial_bfs(solver').err)]
    /\ UNCHANGED host_vars
    /\ UNCHANGED <<shadow_run_vars, probe>>

\* one round of solve's loop: step(), then return if is_done()
SolveLoop ==
    /\ pc = "solve"
    /\ StepCall
    /\ IF solver'.done
       THEN /\ pc' = "host"
            /\ last_call' = [op |-> "solve", ret |-> solution_of(solver'.last_step[1])]
       ELSE /\ pc' = "solve"
            /\ last_call' = [op |-> "solve_step", ret |-> solver'.last_step[1]]
    /\ UNCHANGED shadow_run_vars

\* the host makes the calls of the driver contract itself
Next ==
    \/ \E src \in InitSources : CallInit(src)
    \/ CallFindInitialBfs
    \/ CallStep

Spec == Init /\ [][Next]_vars

\* the host leaves the driving to solve
NextSolve ==
    \/ \E src \in InitSources : CallSolve(src)
    \/ SolveLoop

SpecSolve == Init /\ [][NextSolve]_vars

(***************************************************************************)
(* A host driving a shadow-vertex solver, with its own methods.            *)
(***************************************************************************)
InitShadow ==
    /\ Init
    /\ solver = new_solver("shadow")

\* the scenarios whose slack basis is a vertex: <= constraints only
ShadowSources ==
    {FromProblem(p) : p \in {q \in ScenarioProblems :
        \A i \in DOMAIN q.constraints : q.constraints[i].relation = "LessEqual"}}

\* the auxiliary objectives the host sets: 0 or 1 on each structural variable
AuxVals == {Zero, One}

\* solver.set_auxiliary_objective(d_coeffs, d_slack, d_rhs), called as documented:
\* after init, with the lengths of the tableau
CallSetAuxiliaryObjective(d_coeffs) ==
    /\ pc = "host"
    /\ solver.tableau # None
    /\ solver' = set_auxiliary_objective(solver, d_coeffs,
                                          [i \in DOMAIN solver.tableau[1].z_slack |-> Zero], Zero)
    /\ aux_set' = TRUE
    /\ last_call' = [op |-> "set_auxiliary_objective"]
    /\ UNCHANGED <<source, pivoted, terminal_seen, switches, c_track, pc, visited, nsteps>>
    /\ UNCHANGED host_vars
    /\ UNCHANGED <<shadow_run_vars, probe>>

\* solver.solve_with_shadow_history(src) up to its first step():
\* init, find_initial_bfs()?, the first shadow point
CallSolveShadow(src) ==
    /\ pc = "host"
    /\ Lowers(src)
    /\ solver' = init(solver, src)
    /\ source' = Some(src)
    /\ pivoted' = None
    /\ terminal_seen' = FALSE
    /\ switches' = 0
    /\ c_track' = tracked(solver, src)
    /\ visited' = <<Range(solver'.tableau[1].basis)>>
    /\ nsteps' = 0
    /\ aux_set' = FALSE
    /\ history' = <<>>
    /\ IF find_initial_bfs(solver').ok
       THEN /\ pc' = "shadow_solve"
            /\ shadow_points' = <<current_shadow_point(solver')>>
            /\ last_call' = [op |-> "solve_with_shadow_history_enter"]
       ELSE /\ pc' = "host"
            /\ shadow_points' = <<>>
            /\ last_call' = [op |-> "solve_with_shadow_history",
                             ret |-> solve_error(find_initial_bfs(solver').err)]
    /\ UNCHANGED host_vars
    /\ UNCHANGED probe

\* one step() of solve_with_shadow_history with the two pushes that follow it
\* (inside the loop when the step was not the last, after the loop when it was)
ShadowLoop ==
    /\ pc = "shadow_solve"
    /\ StepCall
    /\ history' = Append(history, solver'.last_step[1])
    /\ shadow_points' = Append(shadow_points, current_shadow_point(solver'))
    /\ IF solver'.done
       THEN /\ pc' = "host"
            /\ last_call' = [op |-> "solve_with_shadow_history",
                             ret |-> solution_of(solver'.last_step[1])]
       ELSE /\ pc' = "shadow_solve"
            /\ last_call' = [op |-> "solve_with_shadow_history_step",
                             ret |-> solver'.last_step[1]]

\* the host starts a run on a fresh instance or on one whose last run is complete
MayStartRun == solver.tableau = None \/ solver.done

NextShadow ==
    \/ \E src \in ShadowSources : MayStartRun /\ CallInit(src)
    \/ \E d_coeffs \in SeqsOfLen(AuxVals, solver.n_vars) : CallSetAuxiliaryObjective(d_coeffs)
    \/ CallFindInitialBfs
    \/ CallStep
    \/ \E src \in ShadowSources : MayStartRun /\ CallSolveShadow(src)
    \/ ShadowLoop

SpecShadow == InitShadow /\ [][NextShadow]_vars

(***************************************************************************)
(* A host calling the column and row rules on tableaux and vectors of its  *)
(* own.                                                                    *)
(***************************************************************************)
CostVals == {FromInteger(v) : v \in -MaxCost..1}
EntryVals == {FromInteger(v) : v \in -1..MaxEntry}

\* (structural columns, rows) of the tableaux given to the Dantzig rule
ProbeShapes == {<<1, 1>>, <<2, 1>>, <<1, 2>>, <<2, 2>>}
\* numbers of rows of the tableaux given to the ratio test, lengths of r_d and r_c
ProbeLens == {1, 2, 3}

unit_rows(m) == [i \in 1..m |-> [j \in 1..m |-> IF j = i THEN One ELSE Zero]]
zero_rows(m, n) == [i \in 1..m |-> [j \in 1..n |-> Zero]]

\* tableaux with the given z-row (Tableau::new)
DantzigProbes ==
    UnionOf({{[fn |-> "find_pivot_col_most_negative",
             tableau |-> tableau_new(zero_rows(sh[2], sh[1]), unit_rows(sh[2]),
                                     [i \in 1..sh[2] |-> Zero], zc, zs, Zero)] :
                zc \in SeqsOfLen(CostVals, sh[1]), zs \in SeqsOfLen(CostVals, sh[2])} :
           sh \in ProbeShapes})

\* tableaux of one structural column a, unit slack columns and right-hand side b, with
\* the column to test: the structural one or the first slack column
RatioProbes ==
    UnionOf({{[fn |-> "ratio_test",
             tableau |-> tableau_new([i \in 1..m |-> <<a[i]>>], unit_rows(m), b,
                                     <<Zero>>, [i \in 1..m |-> Zero], Zero),
             col |-> k] :
                a \in SeqsOfLen(EntryVals, m), b \in SeqsOfLen(EntryVals, m), k \in {0, 1}} :
           m \in ProbeLens})

\* reduced-cost vectors r_d and r_c of equal length
ShadowProbes ==
    UnionOf({{[fn |-> "find_shadow_pivot_col", r_d |-> rd, r_c |-> rc] :
                rd \in SeqsOfLen(EntryVals, l), rc \in SeqsOfLen(CostVals, l)} :
           l \in ProbeLens})

Probes == DantzigProbes \cup RatioProbes \cup ShadowProbes

InitRules ==
    /\ \E c \in Probes : probe = [call |-> c, applied |-> FALSE, ret |-> None]
    /\ tab = None
    /\ pivots = 0
    /\ lastPivot = None
    /\ solver = new_solver("primal")
    /\ source = None
    /\ last_call = [op |-> "new"]
    /\ pivoted = None
    /\ terminal_seen = FALSE
    /\ switches = 0
    /\ c_track = None
    /\ pc = "host"
    /\ visited = <<>>
    /\ nsteps = 0
    /\ aux_set = FALSE
    /\ history = <<>>
    /\ shadow_points = <<>>

\* the host takes the result of the call
Applied(ret) ==
    /\ ~probe.applied
    /\ probe' = [probe EXCEPT !.applied = TRUE, !.ret = ret]
    /\ UNCHANGED <<host_vars, solver_vars, shadow_run_vars>>

\* tableau.find_pivot_col_most_negative()
ApplyMostNegative ==
    /\ probe.call.fn = "find_pivot_col_most_negative"
    /\ Applied(find_pivot_col_most_negative(probe.call.tableau))

\* tableau.ratio_test(col)
ApplyRatioTest ==
    /\ probe.call.fn = "ratio_test"
    /\ Applied(ratio_test(probe.call.tableau, probe.call.col))

\* find_shadow_pivot_col(_, _, r_d, r_c)
ApplyShadowRule ==
    /\ probe.call.fn = "find_shadow_pivot_col"
    /\ Applied(find_shadow_pivot_col(probe.call.r_d, probe.call.r_c))

NextRules == ApplyMostNegative \/ ApplyRatioTest \/ ApplyShadowRule

SpecRules == InitRules /\ [][NextRules]_vars

(***************************************************************************)
(* A host lowering Problems and StandardForms of its own, and giving a     *)
(* solver the StandardForm of a Problem.  A panic is a result of the call: *)
(* the call returns nothing and what it had not yet assigned is unchanged. *)
(***************************************************************************)
Panicked == [panicked |-> TRUE]
Returned(x) == [panicked |-> FALSE, value |-> x]

\* the slack_indices a host can give StandardForm::new for a matrix with n + m
\* columns and m rows, other than the one into_tableau asks for
OtherSlackIndices(n, m) ==
    UNION {SeqsOfLen(0..(n + m - 1), l) : l \in 0..m} \ {[i \in 1..m |-> n + (i - 1)]}

\* StandardForm::new takes any slack_indices: the forms of unit right-hand sides
\* whose slack columns are where into_standard_form puts them
UnitStandardForms == {f \in BuiltStandardForms : \A i \in DOMAIN f.b : f.b[i] = One}

\* sf with its slack_indices replaced by ones that are not one per row at n + i
Misbuilt(sf) ==
    {[sf EXCEPT !.slack_indices = si] : si \in OtherSlackIndices(sf_n_vars(sf), Len(sf.a))}

\* the calls the host can make with the StandardForm of a Problem p
FormCalls(p) ==
    {[fn |-> "into_tableau", sf |-> into_standard_form(p)]}
    \cup {[fn |-> "init", strategy |-> st, problem |-> p] : st \in Strategies}

\* the host is about to make call c; an init is made on a new solver of its strategy
StartProbe(c) ==
    /\ probe = [call |-> c, applied |-> FALSE, ret |-> None]
    /\ solver = new_solver(IF c.fn = "init" THEN c.strategy ELSE "primal")

InitLower ==
    /\ \/ \E p \in Problems : StartProbe([fn |-> "into_tableau_form", problem |-> p])
       \/ \E p \in Problems : \E c \in FormCalls(p) : StartProbe(c)
       \/ \E f \in UnitStandardForms : \E sf \in Misbuilt(f) :
              StartProbe([fn |-> "into_tableau", sf |-> sf])
    /\ tab = None
    /\ pivots = 0
    /\ lastPivot = None
    /\ source = None
    /\ last_call = [op |-> "new"]
    /\ pivoted = None
    /\ terminal_seen = FALSE
    /\ switches = 0
    /\ c_track = None
    /\ pc = "host"
    /\ visited = <<>>
    /\ nsteps = 0
    /\ aux_set = FALSE
    /\ history = <<>>
    /\ shadow_points = <<>>

\* problem.into_tableau_form()
ApplyIntoTableauForm ==
    /\ probe.call.fn = "into_tableau_form"
    /\ Applied(Returned(into_tableau_form(probe.call.problem)))

\* sf.into_tableau(): its assertions, then the tableau
ApplyIntoTableau ==
    /\ probe.call.fn = "into_tableau"
    /\ Applied(IF into_tableau_accepts(probe.call.sf)
               THEN Returned(into_tableau(probe.call.sf))
               ELSE Panicked)

\* solver.init(InitSource::StandardForm(problem.into_standard_form())): into_tableau
\* is called by the first statement of init
ApplyInitFromStandardForm ==
    /\ probe.call.fn = "init"
    /\ ~probe.applied
    /\ LET src == FromStandardForm(into_standard_form(probe.call.problem))
       IN  IF Lowers(src)
           THEN /\ solver' = init(solver, src)
                /\ source' = Some(src)
                /\ visited' = <<Range(solver'.tableau[1].basis)>>
                /\ probe' = [probe EXCEPT !.applied = TRUE, !.ret = Returned(<<>>)]
           ELSE /\ UNCHANGED <<solver, source, visited>>
                /\ probe' = [probe EXCEPT !.applied = TRUE, !.ret = Panicked]
    /\ last_call' = [op |-> "init", was_done |-> solver.done, was_iteration |-> solver.iteration]
    /\ UNCHANGED <<pivoted, terminal_seen, switches, c_track, pc, nsteps, aux_set>>
    /\ UNCHANGED <<host_vars, shadow_run_vars>>

NextLower == ApplyIntoTableauForm \/ ApplyIntoTableau \/ ApplyInitFromStandardForm

SpecLower == InitLower /\ [][NextLower]_vars

(***************************************************************************)
(* Notions the properties below are stated with.                           *)
(***************************************************************************)
\* the variable columns of a tableau
VarCols(t) == 0..(cols(t) - 2)
RowIdx(t) == 0..(rows(t) - 1)

\* t1 is t0 after one pivot at a non-zero entry
IsPivotOf(t0, t1) ==
    \E r \in RowIdx(t0) : \E k \in VarCols(t0) :
        /\ At(t0, r, k) # Zero
        /\ t1.basis[r + 1] = k
        /\ t1 = pivot(t0, r, k)

\* sum over j of objective[j] * x[j]
dot(objective, x) ==
    SumTo([j \in DOMAIN objective |-> RMul(objective[j], x[j])], Len(objective))

\* a Problem whose constraints are all <= with a non-negative right-hand side
LeqForm(p) ==
    \A i \in DOMAIN p.constraints :
        p.constraints[i].relation = "LessEqual" /\ ~RLt(p.constraints[i].rhs, Zero)

RECURSIVE run_to_done(_, _)
\* step() repeated until is_done(), at most fuel times
run_to_done(s, fuel) ==
    IF s.done \/ fuel = 0 THEN s ELSE run_to_done(step(s), fuel - 1)

\* the primal simplex solver run on src from a fresh instance
primal_run(src) == run_to_done(init(new_solver("primal"), src), MaxIter + 2)

IsStep == last_call.op = "step"

(***************************************************************************)
(* C1 (SpecTableau).  After pivot(r, k) at a non-zero entry of a variable  *)
(* column, tableau(r, k) = 1, tableau(i, k) = 0 for every other constraint *)
(* row i, the z-row entry of column k is 0, and basis[r] = k.              *)
(***************************************************************************)
C1_PivotColumnIsUnit ==
    lastPivot # None =>
        LET t == tab[1]
            r == lastPivot[1].row
            k == lastPivot[1].col
        IN  /\ At(t, r, k) = One
            /\ \A i \in RowIdx(t) : i # r => At(t, i, k) = Zero
            /\ z_vars(t)[k + 1] = Zero
            /\ t.basis[r + 1] = k

\* a pivot on an element other than 1, in a tableau of two rows, with a non-zero
\* cost and a non-zero entry in the other row to clear
C1_Witness ==
    /\ lastPivot # None
    /\ lastPivot[1].element = FromInteger(2)
    /\ rows(tab[1]) = 2
    /\ tab[1].z_rhs # Zero
    /\ \E i \in RowIdx(tab[1]) : i # lastPivot[1].row /\ tab[1].rhs[i + 1] \notin {Zero, One}

(***************************************************************************)
(* C2 (Spec).  Every Step of the primal simplex solver on a Problem has    *)
(* objective_value = sum over j of objective[j] * primal[j], objective     *)
(* being the Problem's objective vector.                                   *)
(***************************************************************************)
C2_ObjectiveValueIsObjectiveAtPrimal ==
    (IsStep /\ solver.strategy = "primal" /\ source[1].kind = "Problem") =>
        last_call.ret.objective_value = dot(source[1].problem.objective, last_call.ret.primal)

(***************************************************************************)
(* C3 (SpecTableau).  After any sequence of pivots on a freshly lowered    *)
(* tableau, basis and nonbasis are disjoint and their union is the set of  *)
(* variable indices 0 .. n+m-1.                                            *)
(***************************************************************************)
C3_BasisNonbasisPartition ==
    LET t == tab[1]
    IN  /\ Range(t.basis) \cap Range(t.nonbasis) = {}
        /\ Range(t.basis) \cup Range(t.nonbasis) = VarCols(t)

(***************************************************************************)
(* C4 (Spec).  As claimed: every step() either performs exactly one pivot  *)
(* (status InProgress, iteration incremented by one) or commits to a       *)
(* terminal status (Optimal or Unbounded, is_done set, no pivot).          *)
(* As amended: or, for the two-phase solver in its d-phase when Bland's    *)
(* selector finds no pivot, it switches to the c-phase: no pivot, only the *)
(* z-row replaced, status InProgress, iteration unchanged, is_done false.  *)
(***************************************************************************)
PivotStep ==
    /\ last_call'.ret.status = "InProgress"
    /\ solver'.iteration = solver.iteration + 1
    /\ last_call'.ret.iteration = solver'.iteration
    /\ solver'.done = solver.done
    /\ solver'.phase = solver.phase
    /\ IsPivotOf(solver.tableau[1], solver'.tableau[1])

TerminalStep ==
    /\ last_call'.ret.status \in {"Optimal", "Unbounded"}
    /\ solver'.done
    /\ solver'.tableau = solver.tableau
    /\ solver'.iteration = solver.iteration
    /\ last_call'.ret.iteration = solver'.iteration

PhaseSwitchStep ==
    /\ solver.strategy = "two_phase"
    /\ solver.phase = "OptimizeD" /\ solver'.phase = "OptimizeC"
    /\ find_pivot_indices_bland(solver.tableau[1]).kind \in {"Optimal", "Unbounded"}
    /\ last_call'.ret.status = "InProgress"
    /\ ~solver'.done
    /\ solver'.iteration = solver.iteration
    /\ last_call'.ret.iteration = solver'.iteration
    /\ \A f \in {"coefficients", "slack", "rhs", "basis", "nonbasis"} :
            solver'.tableau[1][f] = solver.tableau[1][f]

C4_StepPivotsOrTerminates ==
    [][last_call'.op = "step" => (PivotStep \/ TerminalStep)]_vars

C4_StepPivotsTerminatesOrSwitches ==
    [][last_call'.op = "step" => (PivotStep \/ TerminalStep \/ PhaseSwitchStep)]_vars

\* the two-phase solver has just taken its phase-switching step
C4_Witness ==
    /\ IsStep
    /\ solver.strategy = "two_phase"
    /\ switches = 1
    /\ pivoted = None
    /\ last_call.ret.status = "InProgress"
    /\ solver.iteration > 0

(***************************************************************************)
(* C5 (Spec).  is_done() is true iff some step() since the last init       *)
(* returned a terminal status; it is false after init and after a step     *)
(* that returned InProgress, and a step() taken when it is true leaves it  *)
(* true.                                                                   *)
(***************************************************************************)
C5_DoneIffTerminalEmitted ==
    /\ solver.done = terminal_seen
    /\ last_call.op = "init" => ~solver.done
    /\ (IsStep /\ last_call.ret.status = "InProgress") => ~solver.done
    /\ (IsStep /\ last_call.was_done) => solver.done

\* a further step() on a solver that was done, after at least one pivot
C5_Witness ==
    /\ IsStep
    /\ last_call.was_done
    /\ solver.done
    /\ solver.iteration > 0

(***************************************************************************)
(* C6 (Spec).  find_initial_bfs() returns Ok(true) when every rhs entry of *)
(* the current tableau is >= 0 and the error "Infeasible: initial tableau  *)
(* has negative RHS" otherwise, and leaves the solver (tableau, iteration, *)
(* done, last_step) unchanged.                                             *)
(***************************************************************************)
AllRhsNonNegative(s) ==
    IF s.tableau = None THEN TRUE
    ELSE \A i \in DOMAIN s.tableau[1].rhs : s.tableau[1].rhs[i][1] >= 0

C6_FindInitialBfsContract ==
    [][last_call'.op = "find_initial_bfs" =>
        /\ solver' = solver
        /\ last_call'.ret =
              IF AllRhsNonNegative(solver) THEN [ok |-> TRUE, err |-> ""]
              ELSE [ok |-> FALSE, err |-> "Infeasible: initial tableau has negative RHS"]]_vars

\* find_initial_bfs() has just failed
C6_Witness ==
    /\ last_call.op = "find_initial_bfs"
    /\ ~last_call.ret.ok
    /\ solver.tableau # None

(***************************************************************************)
(* C7 (SpecSolve).  solve(source) returns Err exactly when                 *)
(* find_initial_bfs fails on the lowered tableau, and then no step was     *)
(* taken (last_step None, is_done false); otherwise it steps until the     *)
(* first terminal step and returns Ok with that step's status (x and       *)
(* objective from the step when Optimal, empty x and zero objective when   *)
(* Unbounded).  It never returns "Solver stopped prematurely".             *)
(***************************************************************************)
C7_SolveContract ==
    /\ pc = "solve" => ~terminal_seen
    /\ last_call.op = "solve" =>
        LET ret == last_call.ret
            t0 == into_tableau_and_n_vars(source[1]).tableau
            negative == \E i \in DOMAIN t0.rhs : t0.rhs[i][1] < 0
        IN  /\ ret.ok = ~negative
            /\ ret.err # "Solver stopped prematurely"
            /\ ~ret.ok =>
                /\ ret.err = "Infeasible: initial tableau has negative RHS"
                /\ solver.last_step = None
                /\ ~solver.done
            /\ ret.ok =>
                /\ solver.done
                /\ ret.status = solver.last_step[1].status
                /\ ret.status \in {"Optimal", "Unbounded"}
                /\ ret.status = "Optimal" =>
                    /\ ret.x = solver.last_step[1].primal
                    /\ ret.objective = solver.last_step[1].objective_value
                /\ ret.status = "Unbounded" => (ret.x = <<>> /\ ret.objective = Zero)

\* solve has returned Unbounded after at least one pivot
C7_Witness ==
    /\ last_call.op = "solve"
    /\ last_call.ret.ok
    /\ last_call.ret.status = "Unbounded"
    /\ solver.iteration > 0

(***************************************************************************)
(* C8 (Spec).  In the two-phase solver, from the phase transition on,      *)
(* z_rhs is the value of c at the current BFS in the sign convention that  *)
(* pivot maintains: it equals the z_rhs obtained by taking the lowered     *)
(* tableau, its z-row at c and z_rhs = 0, through the same pivots.         *)
(***************************************************************************)
C8_TransitionRestoresObjective ==
    (solver.strategy = "two_phase" /\ solver.tableau # None /\ solver.phase = "OptimizeC") =>
        solver.tableau[1].z_rhs = c_track[1].z_rhs

(***************************************************************************)
(* C9 (Spec).  On a feasible, bounded Problem with only <= constraints and *)
(* non-negative right-hand sides, the terminal step of the two-phase       *)
(* solver has the status (Optimal) and the objective_value of the terminal *)
(* step of the primal simplex solver.                                      *)
(***************************************************************************)
C9_TwoPhaseAgreesWithPrimal ==
    (/\ solver.strategy = "two_phase"
     /\ solver.done
     /\ source[1].kind = "Problem"
     /\ LeqForm(source[1].problem)
     /\ primal_run(source[1]).done
     /\ primal_run(source[1]).last_step[1].status = "Optimal") =>
        /\ solver.last_step[1].status = "Optimal"
        /\ solver.last_step[1].objective_value =
              primal_run(source[1]).last_step[1].objective_value

(***************************************************************************)
(* C10 (Spec).  In the two-phase solver every step taken in the d-phase    *)
(* returns InProgress and leaves is_done false; the phase changes only     *)
(* from d to c, on the d-phase step where Bland's selector reports Optimal *)
(* or Unbounded (and on every such step), at most once per init; Optimal   *)
(* and Unbounded are emitted only by steps taken in the c-phase.           *)
(***************************************************************************)
C10_PhaseDiscipline ==
    [][(solver'.strategy = "two_phase" /\ solver'.tableau # None) =>
        /\ switches' <= 1
        /\ (solver'.phase = "OptimizeC") = (switches' = 1)
        /\ last_call'.op = "step" =>
            LET sel == find_pivot_indices_bland(solver.tableau[1])
            IN  /\ solver.phase = "OptimizeD" =>
                    (last_call'.ret.status = "InProgress" /\ ~solver'.done)
                /\ (solver'.phase # solver.phase) =
                    (solver.phase = "OptimizeD" /\ sel.kind \in {"Optimal", "Unbounded"})
                /\ solver.phase = "OptimizeC" => solver'.phase = "OptimizeC"
                /\ last_call'.ret.status \in {"Optimal", "Unbounded"} =>
                    solver.phase = "OptimizeC"]_vars

\* a two-phase run that pivoted in the d-phase, switched, pivoted in the c-phase and ended
C10_Witness ==
    /\ solver.strategy = "two_phase"
    /\ solver.done
    /\ switches = 1
    /\ solver.iteration >= 2
    /\ IsStep

(***************************************************************************)
(* C14 (SpecRules).  find_shadow_pivot_col(r_d, r_c) returns the column j  *)
(* of minimum lambda_j = r_d[j] / (r_d[j] - r_c[j]) among the columns with *)
(* r_d[j] >= 0, r_c[j] < 0, r_d[j] - r_c[j] > 0 and 0 < lambda_j <= 1, the *)
(* smallest such j on ties; if there is none, the first j with r_c[j] < 0; *)
(* and None if and only if no r_c[j] is negative.                          *)
(***************************************************************************)
Negative(x) == x[1] < 0
Lambda(rd, rc, j) == RDiv(rd[j], RSub(rd[j], rc[j]))
Candidates(rd, rc) ==
    {j \in DOMAIN rd :
        /\ rd[j][1] >= 0
        /\ Negative(rc[j])
        /\ RSub(rd[j], rc[j])[1] > 0
        /\ Lambda(rd, rc, j)[1] > 0
        /\ RLe(Lambda(rd, rc, j), One)}

C14_ShadowEnteringRule ==
    (probe.applied /\ probe.call.fn = "find_shadow_pivot_col") =>
        LET rd == probe.call.r_d
            rc == probe.call.r_c
            cand == Candidates(rd, rc)
            neg == {j \in DOMAIN rc : Negative(rc[j])}
            ret == probe.ret
        IN  /\ (ret = None) = (neg = {})
            /\ cand # {} =>
                /\ ret # None
                /\ ret[1] + 1 \in cand
                /\ \A j \in cand : RLe(Lambda(rd, rc, ret[1] + 1), Lambda(rd, rc, j))
                /\ \A j \in cand : j < ret[1] + 1 =>
                        RLt(Lambda(rd, rc, ret[1] + 1), Lambda(rd, rc, j))
            /\ (cand = {} /\ neg # {}) =>
                /\ ret # None
                /\ ret[1] + 1 \in neg
                /\ \A j \in neg : ret[1] + 1 <= j

\* the rule chose a parametric candidate that is neither the first candidate nor the
\* first column of negative r_c
C14_Witness ==
    /\ probe.applied
    /\ probe.call.fn = "find_shadow_pivot_col"
    /\ probe.ret # None
    /\ probe.ret[1] + 1 \in Candidates(probe.call.r_d, probe.call.r_c)
    /\ \E j \in Candidates(probe.call.r_d, probe.call.r_c) : j < probe.ret[1] + 1

(***************************************************************************)
(* C19 (SpecRules).  find_pivot_col_most_negative, over the z-row's        *)
(* structural entries followed by its slack entries, returns the index of  *)
(* the most negative entry, the first one on ties, and None if and only if *)
(* every entry is >= 0.                                                    *)
(***************************************************************************)
C19_DantzigRule ==
    (probe.applied /\ probe.call.fn = "find_pivot_col_most_negative") =>
        LET t == probe.call.tableau
            z == [j \in 1..(Len(t.z_coeffs) + Len(t.z_slack)) |->
                    IF j <= Len(t.z_coeffs) THEN t.z_coeffs[j] ELSE t.z_slack[j - Len(t.z_coeffs)]]
            ret == probe.ret
        IN  /\ (ret = None) = (\A j \in DOMAIN z : z[j][1] >= 0)
            /\ ret # None =>
                /\ ret[1] + 1 \in DOMAIN z
                /\ Negative(z[ret[1] + 1])
                /\ \A j \in DOMAIN z : RLe(z[ret[1] + 1], z[j])
                /\ \A j \in DOMAIN z : j < ret[1] + 1 => RLt(z[ret[1] + 1], z[j])

\* the most negative entry occurs twice and the first one, a slack entry, was returned
C19_Witness ==
    /\ probe.applied
    /\ probe.call.fn = "find_pivot_col_most_negative"
    /\ probe.ret # None
    /\ probe.ret[1] >= Len(probe.call.tableau.z_coeffs)
    /\ \E j \in DOMAIN probe.call.tableau.z_slack :
            /\ Len(probe.call.tableau.z_coeffs) + j - 1 > probe.ret[1]
            /\ probe.call.tableau.z_slack[j] = z_vars(probe.call.tableau)[probe.ret[1] + 1]

(***************************************************************************)
(* C20 (SpecRules).  ratio_test(k) returns the row i that minimises        *)
(* rhs[i] / tableau(i, k) over the rows with tableau(i, k) > 0, the        *)
(* smallest such row on ties, and None if and only if column k has no      *)
(* strictly positive entry in a constraint row.                            *)
(***************************************************************************)
PositiveRows(t, k) == {i \in RowIdx(t) : At(t, i, k)[1] > 0}
\* rhs[i] / tableau(i, k) <= rhs[h] / tableau(h, k), for positive entries
RatioLe(t, k, i, h) == RLe(RMul(t.rhs[i + 1], At(t, h, k)), RMul(t.rhs[h + 1], At(t, i, k)))

C20_RatioTest ==
    (probe.applied /\ probe.call.fn = "ratio_test") =>
        LET t == probe.call.tableau
            k == probe.call.col
            pos == PositiveRows(t, k)
            ret == probe.ret
        IN  /\ (ret = None) = (pos = {})
            /\ ret # None =>
                /\ ret[1] \in pos
                /\ \A i \in pos : RatioLe(t, k, ret[1], i)
                /\ \A i \in pos : i < ret[1] => ~RatioLe(t, k, i, ret[1])

\* two rows tie for the minimum ratio, with different entries, below a third row's ratio
C20_Witness ==
    /\ probe.applied
    /\ probe.call.fn = "ratio_test"
    /\ probe.ret # None
    /\ LET t == probe.call.tableau
           k == probe.call.col
       IN  /\ \E i \in PositiveRows(t, k) :
                 /\ i > probe.ret[1]
                 /\ RatioLe(t, k, i, probe.ret[1])
                 /\ At(t, i, k) # At(t, probe.ret[1], k)
           /\ \E i \in PositiveRows(t, k) : ~RatioLe(t, k, i, probe.ret[1])

(***************************************************************************)
(* C17 (Spec).  init(source), in any prior state of the solver, leaves     *)
(* iteration = 0, is_done() false, last_step() None, n_vars that of the    *)
(* new source and the tableau lowered from the new source; for the         *)
(* two-phase solver the phase is the d-phase and the z-row is -c.          *)
(***************************************************************************)
SourceNVars(src) ==
    IF src.kind = "Problem" THEN Len(src.problem.objective)
    ELSE Len(src.sf.c) - Len(src.sf.slack_indices)

C17_InitResets ==
    [][last_call'.op = "init" =>
        LET low == into_tableau_and_n_vars(source'[1]).tableau
            t == solver'.tableau[1]
        IN  /\ solver'.iteration = 0
            /\ ~solver'.done
            /\ solver'.last_step = None
            /\ solver'.n_vars = SourceNVars(source'[1])
            /\ \A f \in {"coefficients", "slack", "rhs", "basis", "nonbasis"} : t[f] = low[f]
            /\ IF solver'.strategy = "two_phase"
               THEN /\ solver'.phase = "OptimizeD"
                    /\ t.z_coeffs = [j \in DOMAIN low.z_coeffs |-> RNeg(low.z_coeffs[j])]
                    /\ t.z_slack = [j \in DOMAIN low.z_slack |-> RNeg(low.z_slack[j])]
                    /\ t.z_rhs = RNeg(low.z_rhs)
               ELSE t = low]_vars

\* init has just been called with the one-variable scenario on a two-phase solver that
\* was done after some pivots
C17_Witness ==
    /\ last_call.op = "init"
    /\ last_call.was_done
    /\ last_call.was_iteration > 0
    /\ solver.n_vars = 1
    /\ solver.strategy = "two_phase"

(***************************************************************************)
(* C15 (Spec).  With d = 0 every step() of the shadow-vertex solver is the *)
(* step of a primal simplex that enters by Bland's smallest-index rule and *)
(* leaves by the same ratio test: the same pivot or verdict, hence the     *)
(* same Step (iteration, primal, objective_value, status).                 *)
(***************************************************************************)
AuxIsZero(s) ==
    /\ \A j \in DOMAIN s.d_coeffs : s.d_coeffs[j] = Zero
    /\ \A j \in DOMAIN s.d_slack : s.d_slack[j] = Zero
    /\ s.d_rhs = Zero

\* step() of a primal simplex with Bland's entering rule
BlandPrimalStep(s) ==
    LET col == find_pivot_col_bland(s.tableau[1])
        leaving == IF col = None THEN None ELSE ratio_test(s.tableau[1], col[1])
    IN  IF col = None THEN emit([s EXCEPT !.done = TRUE], "Optimal")
        ELSE IF leaving = None THEN emit([s EXCEPT !.done = TRUE], "Unbounded")
        ELSE emit([s EXCEPT !.tableau = Some(pivot(s.tableau[1], leaving[1], col[1])),
                            !.iteration = @ + 1], "InProgress")

C15_ShadowWithZeroAuxIsBland ==
    [][(last_call'.op = "step" /\ solver.strategy = "shadow" /\ AuxIsZero(solver)) =>
        /\ solver' = BlandPrimalStep(solver)
        /\ last_call'.ret = BlandPrimalStep(solver).last_step[1]]_vars

\* the shadow-vertex solver with d = 0 has pivoted twice on a Problem of two variables,
\* the second time on a column that is not the first one
C15_Witness ==
    /\ IsStep
    /\ solver.strategy = "shadow"
    /\ AuxIsZero(solver)
    /\ solver.n_vars = 2
    /\ solver.iteration = 2
    /\ pivoted # None
    /\ pivoted[1].col > 0

(***************************************************************************)
(* C13 (SpecSolve).  A step of the primal simplex solver returns Unbounded *)
(* exactly when the column chosen by the Dantzig rule has no strictly      *)
(* positive entry in a constraint row; that step does not pivot and sets   *)
(* is_done, and solve returns Ok with status Unbounded.  On Max x subject  *)
(* to -x <= 1 solve returns Unbounded after at most n + m = 2 pivots.      *)
(***************************************************************************)
UnboundedScenario == FromProblem(Prob(<<Q(1)>>, "Max", <<Con(<<Q(-1)>>, "LessEqual", Q(1))>>))

EnteringColumnHasNoPositiveEntry(t) ==
    LET col == find_pivot_col_most_negative(t)
    IN  IF col = None THEN FALSE
        ELSE \A i \in RowIdx(t) : At(t, i, col[1])[1] <= 0

C13_UnboundedDetection ==
    [][(solver.strategy = "primal" /\ pc = "solve") =>
        LET status == solver'.last_step[1].status
        IN  /\ (status = "Unbounded") = EnteringColumnHasNoPositiveEntry(solver.tableau[1])
            /\ status = "Unbounded" =>
                /\ solver'.tableau = solver.tableau
                /\ solver'.iteration = solver.iteration
                /\ solver'.done
                /\ last_call'.op = "solve"
                /\ last_call'.ret.ok
                /\ last_call'.ret.status = "Unbounded"
            /\ (source' = Some(UnboundedScenario) /\ last_call'.op = "solve") =>
                /\ status = "Unbounded"
                /\ solver'.iteration <= 2]_vars

\* solve has returned on the scenario Max x subject to -x <= 1
C13_Witness ==
    /\ solver.strategy = "primal"
    /\ source = Some(UnboundedScenario)
    /\ last_call.op = "solve"
    /\ last_call.ret.ok
    /\ last_call.ret.status = "Unbounded"

(***************************************************************************)
(* C11 (Spec).  With Bland's rule (the two-phase solver in both phases,    *)
(* the shadow-vertex solver with d = 0), on a feasible bounded LP the run  *)
(* reaches its terminal status after at most C(n+m, m) pivots and holds no *)
(* basis twice.  The LP here has only <= constraints with non-negative     *)
(* right-hand sides (the origin is feasible) and the run ended Optimal.    *)
(***************************************************************************)
RECURSIVE Binom(_, _)
\* the binomial coefficient C(a, b)
Binom(a, b) == IF b = 0 \/ b = a THEN 1 ELSE Binom(a - 1, b - 1) + Binom(a - 1, b)

UsesBland(s) == s.strategy = "two_phase" \/ (s.strategy = "shadow" /\ AuxIsZero(s))

\* the run on a feasible bounded LP has reached its terminal status
EndedOptimalOnFeasible ==
    /\ source # None
    /\ source[1].kind = "Problem"
    /\ LeqForm(source[1].problem)
    /\ solver.done
    /\ solver.last_step # None
    /\ solver.last_step[1].status = "Optimal"

NoBasisTwice == \A i, j \in DOMAIN visited : i # j => visited[i] # visited[j]

C11_BlandBoundAndNoRepeat ==
    (UsesBland(solver) /\ EndedOptimalOnFeasible) =>
        /\ solver.iteration <= Binom(cols(solver.tableau[1]) - 1, rows(solver.tableau[1]))
        /\ NoBasisTwice

\* the part of the statement that the shadow-vertex solver meets
C11_ShadowPart ==
    (solver.strategy = "shadow" /\ AuxIsZero(solver) /\ EndedOptimalOnFeasible) =>
        /\ solver.iteration <= Binom(cols(solver.tableau[1]) - 1, rows(solver.tableau[1]))
        /\ NoBasisTwice

(***************************************************************************)
(* C18 (SpecShadow).  After init on a shadow-vertex solver, and until      *)
(* set_auxiliary_objective is called after that init, d is the zero vector *)
(* of the new dimensions: d_coeffs has n zeros, d_slack has m zeros and    *)
(* d_rhs = 0, whatever the instance was used for before.                   *)
(***************************************************************************)
ZeroVector(v, len) == Len(v) = len /\ \A j \in DOMAIN v : v[j] = Zero

C18_InitZeroesAux ==
    (solver.strategy = "shadow" /\ solver.tableau # None /\ ~aux_set) =>
        /\ ZeroVector(solver.d_coeffs, n_structural(solver.tableau[1]))
        /\ ZeroVector(solver.d_slack, rows(solver.tableau[1]))
        /\ solver.d_rhs = Zero

(***************************************************************************)
(* C16 (SpecShadow).  When solve_with_shadow_history returns a terminal    *)
(* status, shadow_points has length iterations + 1, where iterations is    *)
(* the iteration count of the final Step, and the second coordinate of the *)
(* last shadow point is the objective value of the final Step.             *)
(***************************************************************************)
ShadowSolveReturned ==
    /\ last_call.op = "solve_with_shadow_history"
    /\ last_call.ret.ok
    /\ last_call.ret.status \in Terminal

C16_ShadowPointsLength ==
    ShadowSolveReturned =>
        /\ Len(shadow_points) = solver.last_step[1].iteration + 1
        /\ shadow_points[Len(shadow_points)][2] = solver.last_step[1].objective_value

\* what the code keeps: one point before the first step() and one after every step()
C16_OnePointPerStep ==
    ShadowSolveReturned =>
        /\ Len(shadow_points) = Len(history) + 1
        /\ Len(history) = solver.last_step[1].iteration + 1
        /\ shadow_points[Len(shadow_points)][2] = solver.last_step[1].objective_value
        /\ shadow_points[Len(shadow_points)] = shadow_points[Len(shadow_points) - 1]

(***************************************************************************)
(* C12 (SpecShadow).  Two runs of one strategy on the same Problem return  *)
(* the same sequence of Steps, whether the second run is made on a fresh   *)
(* instance or on an instance that init re-initialises after earlier runs  *)
(* on the same or on another Problem: the k-th step() since the last init  *)
(* returns what the k-th step() returns on a fresh instance.  The runs     *)
(* compared are those on which set_auxiliary_objective is not called.      *)
(***************************************************************************)
RECURSIVE steps(_, _)
\* k calls of step()
steps(s, k) == IF k = 0 THEN s ELSE step(steps(s, k - 1))

\* the Step that the k-th step() returns on a fresh instance initialised with src
fresh_run_step(strategy, src, k) == steps(init(new_solver(strategy), src), k).last_step[1]

C12_RunsAreIdentical ==
    (IsStep /\ ~last_call.was_done /\ ~aux_set) =>
        last_call.ret = fresh_run_step(solver.strategy, source[1], nsteps)

(***************************************************************************)
(* C23 (SpecLower).  into_tableau_form() of a Problem with n variables and *)
(* m constraints yields m rows and n + m + 1 logical columns; every rhs is *)
(* >= 0; slack row i has +1 at column i if the normalised constraint i is  *)
(* <=, -1 if it is >=, zeros if it is =, and 0 elsewhere; z_coeffs is      *)
(* -objective for Max and +objective for Min, z_slack is zero, z_rhs = 0,  *)
(* basis = [n..n+m) and nonbasis = [0..n).                                 *)
(***************************************************************************)
\* the relation of a constraint once its right-hand side has been made non-negative
NormalisedRelation(c) ==
    IF c.rhs[1] >= 0 \/ c.relation = "Equal" THEN c.relation
    ELSE IF c.relation = "LessEqual" THEN "GreaterEqual" ELSE "LessEqual"

SlackSign(rel) == IF rel = "LessEqual" THEN 1 ELSE IF rel = "GreaterEqual" THEN -1 ELSE 0

LoweredProblem == probe.call.fn = "into_tableau_form" /\ probe.applied

C23_LoweringShape ==
    LoweredProblem =>
        LET p == probe.call.problem
            t == probe.ret.value
            n == Len(p.objective)
            m == Len(p.constraints)
        IN  /\ rows(t) = m
            /\ cols(t) = n + m + 1
            /\ Len(t.rhs) = m /\ Len(t.slack) = m
            /\ \A i \in 1..m :
                /\ Len(t.coefficients[i]) = n /\ Len(t.slack[i]) = m
                /\ t.rhs[i][1] >= 0
                /\ \A j \in 1..m :
                    t.slack[i][j] = FromInteger(IF j = i
                                                THEN SlackSign(NormalisedRelation(p.constraints[i]))
                                                ELSE 0)
            /\ \A j \in 1..n :
                t.z_coeffs[j] = IF p.goal = "Max" THEN RNeg(p.objective[j]) ELSE p.objective[j]
            /\ t.z_slack = [j \in 1..m |-> Zero]
            /\ t.z_rhs = Zero
            /\ t.basis = [i \in 1..m |-> n + i - 1]
            /\ t.nonbasis = [j \in 1..n |-> j - 1]

\* a Max Problem of two constraints has been lowered: a >= constraint with a negative
\* right-hand side (normalised to <=) and an equality
C23_Witness ==
    /\ LoweredProblem
    /\ probe.call.problem.goal = "Max"
    /\ Len(probe.call.problem.constraints) = 2
    /\ probe.call.problem.constraints[1].relation = "Equal"
    /\ probe.call.problem.constraints[2].relation = "GreaterEqual"
    /\ probe.ret.value.slack = <<<<Zero, Zero>>, <<Zero, RNeg(One)>>>>

(***************************************************************************)
(* C22 (SpecLower).  For a Problem with n variables whose m constraints    *)
(* are all given with relation <=, into_tableau_form() yields basis =      *)
(* [n, ..., n+m-1] and a slack block equal to the m x m identity.  As      *)
(* stated, whatever the sign of the right-hand sides; as the code has it,  *)
(* row i of the slack block has +1 at column i when rhs i is >= 0 and -1   *)
(* when it is negative.                                                    *)
(***************************************************************************)
AllGivenLessEqual(p) == \A i \in DOMAIN p.constraints : p.constraints[i].relation = "LessEqual"

C22_LessEqualGivesIdentity ==
    (LoweredProblem /\ AllGivenLessEqual(probe.call.problem)) =>
        /\ probe.ret.value.slack = unit_rows(Len(probe.call.problem.constraints))
        /\ probe.ret.value.basis = [i \in DOMAIN probe.call.problem.constraints |->
                                        Len(probe.call.problem.objective) + i - 1]

C22_LessEqualGivesSignedIdentity ==
    (LoweredProblem /\ AllGivenLessEqual(probe.call.problem)) =>
        LET p == probe.call.problem
            m == Len(p.constraints)
        IN  /\ probe.ret.value.slack =
                    [i \in 1..m |-> [j \in 1..m |->
                        IF j # i THEN Zero
                        ELSE IF p.constraints[i].rhs[1] >= 0 THEN One ELSE RNeg(One)]]
            /\ probe.ret.value.basis = [i \in 1..m |-> Len(p.objective) + i - 1]

\* a Problem of one <= constraint with a negative right-hand side has been lowered
C22_Witness ==
    /\ LoweredProblem
    /\ AllGivenLessEqual(probe.call.problem)
    /\ Len(probe.call.problem.constraints) = 1
    /\ probe.call.problem.constraints[1].rhs = RNeg(One)
    /\ probe.ret.value.slack = <<<<RNeg(One)>>>>

(***************************************************************************)
(* C24 (SpecLower).  StandardForm.into_tableau() panics, producing no      *)
(* tableau, whenever slack_indices does not have exactly one entry per row *)
(* equal to n + i for row i, as in every form that into_standard_form()    *)
(* derives from a Problem with an equality constraint; init of a solver    *)
(* with such a StandardForm source installs no tableau.                    *)
(***************************************************************************)
\* slack_indices names the last m columns of a, one per row, in order
OneSlackPerRow(sf) ==
    /\ Len(sf.slack_indices) = Len(sf.a)
    /\ \A i \in DOMAIN sf.slack_indices :
        sf.slack_indices[i] = (Len(sf.c) - Len(sf.a)) + (i - 1)

HasEquality(p) == \E i \in DOMAIN p.constraints : p.constraints[i].relation = "Equal"

C24_IntoTableauFailsFast ==
    /\ (probe.call.fn = "into_tableau" /\ probe.applied /\ ~OneSlackPerRow(probe.call.sf)) =>
            probe.ret = Panicked
    /\ (probe.call.fn = "init" /\ probe.applied /\ HasEquality(probe.call.problem)) =>
            /\ ~OneSlackPerRow(into_standard_form(probe.call.problem))
            /\ probe.ret = Panicked
            /\ solver = new_solver(probe.call.strategy)

\* init of a shadow-vertex solver was given the StandardForm of the scenario with a <=,
\* a >= and an equality constraint
C24_Witness ==
    /\ probe.call.fn = "init"
    /\ probe.applied
    /\ probe.ret = Panicked
    /\ probe.call.strategy = "shadow"
    /\ Len(probe.call.problem.constraints) = 3
    /\ probe.call.problem.constraints[1].relation = "LessEqual"
    /\ probe.call.problem.constraints[3].relation = "Equal"
    /\ solver.tableau = None

\* into_tableau was called on a form with one slack index per row, in the wrong columns
C24_WitnessMisplaced ==
    /\ probe.call.fn = "into_tableau"
    /\ probe.applied
    /\ probe.ret = Panicked
    /\ Len(probe.call.sf.slack_indices) = 2
    /\ Len(probe.call.sf.a) = 2

(***************************************************************************)
(* C30 (SpecLower).  For a Problem without equality constraints the two    *)
(* lowering paths agree: a solver initialised from the StandardForm that   *)
(* into_standard_form() gives (into_tableau) holds the same n_vars and the *)
(* same tableau (coefficients, slack, rhs, z-row, basis, nonbasis) as one  *)
(* initialised from the Problem (into_tableau_form); the two solvers are   *)
(* then in the same state, and so are their step sequences.                *)
(***************************************************************************)
C30_LoweringPathsAgree ==
    (probe.call.fn = "init" /\ probe.applied /\ ~HasEquality(probe.call.problem)) =>
        LET direct == init(new_solver(probe.call.strategy), FromProblem(probe.call.problem))
        IN  /\ probe.ret # Panicked
            /\ solver.n_vars = Len(probe.call.problem.objective)
            /\ solver.n_vars = direct.n_vars
            /\ solver.tableau = direct.tableau
            /\ solver = direct

\* a solver was initialised from the StandardForm of a Problem of two constraints,
\* a <= one and a >= one
C30_Witness ==
    /\ probe.call.fn = "init"
    /\ probe.applied
    /\ probe.ret # Panicked
    /\ Len(probe.call.problem.constraints) = 2
    /\ probe.call.problem.constraints[1].relation = "LessEqual"
    /\ probe.call.problem.constraints[2].relation = "GreaterEqual"
    /\ solver.tableau # None
    /\ solver.tableau[1].slack = <<<<One, Zero>>, <<Zero, RNeg(One)>>>>

(***************************************************************************)
(* C26 (Spec).  In every state of a solver from init on, for any Problem,  *)
(* the tableau columns of the basic variables form an identity: column     *)
(* basis[i] has 1 in row i, 0 in every other constraint row, and a z-row   *)
(* entry of 0.                                                             *)
(***************************************************************************)
BasicColumnIsUnit(t, i) ==
    /\ At(t, i, t.basis[i + 1]) = One
    /\ \A h \in RowIdx(t) \ {i} : At(t, h, t.basis[i + 1]) = Zero
    /\ z_vars(t)[t.basis[i + 1] + 1] = Zero

C26_BasicColumnsFormIdentity ==
    (solver.tableau # None /\ source[1].kind = "Problem") =>
        \A i \in RowIdx(solver.tableau[1]) : BasicColumnIsUnit(solver.tableau[1], i)

\* what holds of Problems whose constraints are all <= with a right-hand side >= 0
C26_OnLeqForm ==
    (solver.tableau # None /\ source[1].kind = "Problem" /\ LeqForm(source[1].problem)) =>
        \A i \in RowIdx(solver.tableau[1]) : BasicColumnIsUnit(solver.tableau[1], i)

(***************************************************************************)
(* C25 (SpecSolve).  Whenever solve returns status Optimal for a Problem,  *)
(* with <=, >= or = constraints, the returned x is a feasible point of the *)
(* Problem: x >= 0 componentwise and every constraint is satisfied by x.   *)
(***************************************************************************)
Satisfies(x, c) ==
    LET lhs == dot(c.coefficients, x)
    IN  CASE c.relation = "LessEqual" -> RLe(lhs, c.rhs)
          [] c.relation = "GreaterEqual" -> RLe(c.rhs, lhs)
          [] OTHER -> lhs = c.rhs

Feasible(x, p) ==
    /\ \A j \in DOMAIN x : RLe(Zero, x[j])
    /\ \A i \in DOMAIN p.constraints : Satisfies(x, p.constraints[i])

SolveReturnedOptimal ==
    /\ last_call.op = "solve"
    /\ last_call.ret.ok
    /\ last_call.ret.status = "Optimal"
    /\ source[1].kind = "Problem"

C25_OptimalIsFeasible ==
    SolveReturnedOptimal => Feasible(last_call.ret.x, source[1].problem)

\* what holds of Problems whose constraints are all <= with a right-hand side >= 0
C25_OnLeqForm ==
    (SolveReturnedOptimal /\ LeqForm(source[1].problem)) =>
        Feasible(last_call.ret.x, source[1].problem)

(***************************************************************************)
(* C21 (Spec).  In the two-phase solver, in the d-phase and in the         *)
(* c-phase, the entering column of every pivot is the smallest-index       *)
(* column (structural before slack) whose z-row entry is negative, and the *)
(* leaving row is the row of minimum ratio on that column, the smallest    *)
(* such row on ties.                                                       *)
(***************************************************************************)
\* step() has pivoted the solver's tableau at the recorded (row, col)
SolverPivots ==
    /\ last_call'.op \in {"step", "solve_step", "solve"}
    /\ pivoted' # None
    /\ solver'.tableau = Some(pivot(solver.tableau[1], pivoted'[1].row, pivoted'[1].col))

FirstNegativeColumn(t, k) ==
    /\ Negative(z_vars(t)[k + 1])
    /\ \A j \in VarCols(t) : j < k => ~Negative(z_vars(t)[j + 1])

MinRatioRow(t, k, r) ==
    /\ r \in PositiveRows(t, k)
    /\ \A i \in PositiveRows(t, k) : RatioLe(t, k, r, i)
    /\ \A i \in PositiveRows(t, k) : i < r => ~RatioLe(t, k, i, r)

C21_TwoPhaseUsesBland ==
    [][(solver.strategy = "two_phase" /\ solver'.iteration # solver.iteration
            /\ last_call'.op = "step") =>
        /\ SolverPivots
        /\ FirstNegativeColumn(solver.tableau[1], pivoted'[1].col)
        /\ MinRatioRow(solver.tableau[1], pivoted'[1].col, pivoted'[1].row)]_vars

\* the two-phase solver has pivoted in its c-phase on a column that is not the first
C21_Witness ==
    /\ IsStep
    /\ solver.strategy = "two_phase"
    /\ solver.phase = "OptimizeC"
    /\ pivoted # None
    /\ pivoted[1].col > 0
    /\ switches = 1

C27_StepsKeepRhsNonNegative ==
    [][(last_call'.op = "step" /\ AllRhsNonNegative(solver)) =>
        /\ AllRhsNonNegative(solver')
        /\ solver.strategy \in {"primal", "shadow"} =>
                RLe(solver.tableau[1].z_rhs, solver'.tableau[1].z_rhs)]_vars

\* find_initial_bfs passes on the lowered tableau, and the primal solver has made a
\* second pivot, in a tableau of two rows, that raised z_rhs and left an rhs entry at 0
C27_Witness ==
    /\ IsStep
    /\ solver.strategy = "primal"
    /\ ~has_negative_rhs(into_tableau_and_n_vars(source[1]).tableau)
    /\ solver.iteration = 2
    /\ pivoted # None
    /\ rows(solver.tableau[1]) = 2
    /\ solver.tableau[1].z_rhs[1] > 0
    /\ \E i \in DOMAIN solver.tableau[1].rhs : solver.tableau[1].rhs[i] = Zero

(***************************************************************************)
(* C29 (Spec).  For every strategy, once is_done() is true, a further      *)
(* step() leaves the tableau (entries, z-row, basis) and the iteration     *)
(* counter unchanged and returns a Step equal to the terminal Step already *)
(* emitted, which last_step() keeps returning.                             *)
(***************************************************************************)
C29_StepAfterDoneRepeats ==
    [][(last_call'.op = "step" /\ solver.done) =>
        /\ solver'.tableau = solver.tableau
        /\ solver'.iteration = solver.iteration
        /\ solver'.done
        /\ last_call'.ret = solver.last_step[1]
        /\ solver'.last_step = solver.last_step]_vars

\* step() was called on a two-phase solver that was done after pivots in both phases
C29_Witness ==
    /\ IsStep
    /\ last_call.was_done
    /\ solver.strategy = "two_phase"
    /\ solver.iteration = 2
    /\ last_call.ret.status = "Optimal"

====
